---------------------------- MODULE Spec2Model ----------------------------
(***************************************************************************)
(* Statement lowering core of the ispc compiler (stmt.cpp).                *)
(*                                                                         *)
(* A statement tree is built by the statement constructors, type-checked   *)
(* (Stmt::TypeCheck) and lowered (Stmt::EmitCode) into a                   *)
(* FunctionEmitContext.  The emit context, the expression classes and the  *)
(* type classes live outside stmt.cpp; they are modelled from their        *)
(* documented contract.  Every emit-context operation that stmt.cpp issues *)
(* is appended to ctx.trace, so that the lowering can be inspected         *)
(* operation by operation.                                                 *)
(***************************************************************************)
EXTENDS Integers, Sequences, FiniteSets, TLC

VARIABLES
    g,        \* global options (g->opt)
    orig,     \* the statement as built by the constructors
    stmt,     \* the statement after the passes run so far (NULL once dropped)
    phase,    \* "parse" | "checked" | "emitted", or the analysis that has run
    diag,     \* diagnostics reported so far, in order
    ctx,      \* the FunctionEmitContext
    scan      \* result of the last analysis call (scan, safety or cost)

vars == <<g, orig, stmt, phase, diag, ctx, scan>>

---------------------------------------------------------------------------
(* Types (type.h): only the capabilities stmt.cpp consults.                *)

NoType == [cls |-> "NoType", base |-> "", var |-> "", isConst |-> FALSE,
           count |-> 0, elems |-> <<>>]

AtomicType(base, var) ==
    [cls |-> "atomic", base |-> base, var |-> var, isConst |-> FALSE,
     count |-> 0, elems |-> <<>>]

UniformBool  == AtomicType("bool", "uniform")
VaryingBool  == AtomicType("bool", "varying")
UniformInt32 == AtomicType("int32", "uniform")
VaryingInt32 == AtomicType("int32", "varying")

EnumType(var) ==
    [cls |-> "enum", base |-> "enum", var |-> var, isConst |-> FALSE,
     count |-> 0, elems |-> <<>>]

ReferenceType(target) ==
    [cls |-> "reference", base |-> "", var |-> target.var, isConst |-> FALSE,
     count |-> 0, elems |-> <<target>>]

ArrayType(elem, n) ==
    [cls |-> "array", base |-> "", var |-> elem.var, isConst |-> FALSE,
     count |-> n, elems |-> <<elem>>]

VectorType(elem, n) ==
    [cls |-> "vector", base |-> "", var |-> elem.var, isConst |-> FALSE,
     count |-> n, elems |-> <<elem>>]

StructType(var, members) ==
    [cls |-> "struct", base |-> "", var |-> var, isConst |-> FALSE,
     count |-> Len(members), elems |-> members]

AsConstType(t) == [t EXCEPT !.isConst = TRUE]

IsUniformType(t) == t.var = "uniform"
IsVaryingType(t) == t.var = "varying"
IsBoolType(t)    == t.cls = "atomic" /\ t.base = "bool"
IsNumericType(t) == (t.cls = "atomic" /\ t.base # "bool") \/
                    (t.cls = "vector" /\ t.elems[1].base # "bool")
IsConstType(t)   == t.isConst
IsAtomicType(t)  == t.cls = "atomic"
IsEnumType(t)    == t.cls = "enum"
IsReferenceType(t)  == t.cls = "reference"
IsCollectionType(t) == t.cls \in {"struct", "array", "vector"}
IsSequentialType(t) == t.cls \in {"array", "vector"}
GetReferenceTarget(t) == t.elems[1]
GetElementCount(t) == t.count
GetElementType(t, i) == IF t.cls = "struct" THEN t.elems[i] ELSE t.elems[1]
GetSizedArray(t, n) == [t EXCEPT !.count = n]
GetAsNonConstType(t) == [t EXCEPT !.isConst = FALSE]
TypeEqual(a, b) == a # NoType /\ b # NoType /\ a = b

---------------------------------------------------------------------------
(* Expressions (expr.h).  An expression is a black box that answers        *)
(* GetType, GetValue, TypeCheck and EstimateCost; its class and children   *)
(* are what the safety analysis inspects.                                  *)
(*   type : GetType(), NoType when it returns NULL                         *)
(*   val  : GetValue() returns a value (FALSE: it returns NULL)            *)
(*   tc   : "ok" when TypeCheck() returns an expression, "null" otherwise  *)

NoExpr == [id |-> "", kind |-> "NoExpr", type |-> NoType, val |-> FALSE,
           tc |-> "null", cost |-> 0, exprs |-> <<>>, ints |-> <<>>]

MkExpr(id, kind, type, val, tc, cost, exprs) ==
    [id |-> id, kind |-> kind, type |-> type, val |-> val, tc |-> tc,
     cost |-> cost, exprs |-> exprs, ints |-> <<>>]

ConstExpr(id, type, ints) ==
    [id |-> id, kind |-> "ConstExpr", type |-> type, val |-> TRUE, tc |-> "ok",
     cost |-> 0, exprs |-> <<>>, ints |-> ints]

ExprList(id, exprs) ==
    [id |-> id, kind |-> "ExprList", type |-> NoType, val |-> FALSE, tc |-> "ok",
     cost |-> 0, exprs |-> exprs, ints |-> <<>>]

GetType(e) == e.type

COST_TYPECAST_SIMPLE == 1

\* new TypeCastExpr(type, expr, false, pos)
TypeCastExpr(type, e) ==
    [id |-> e.id, kind |-> "TypeCastExpr", type |-> type, val |-> e.val,
     tc |-> "ok", cost |-> e.cost + COST_TYPECAST_SIMPLE, exprs |-> <<e>>,
     ints |-> <<>>]

\* expr->TypeCheck()
ExprTypeCheck(e) == IF e.tc = "null" THEN NoExpr ELSE e

ExprEstimateCost(e) == e.cost


---------------------------------------------------------------------------
(* Statements (stmt.h): one record per class, "kind" is the dynamic type.  *)
(* NULL is the null Stmt pointer.                                          *)

NULL == [kind |-> "Null"]

ExprStmt(e) == [kind |-> "ExprStmt", expr |-> e]

\* vars: sequence of VariableDeclaration [sym, init]; sym indexes the symbol table
DeclStmt(v) == [kind |-> "DeclStmt", vars |-> v]

IfStmt(t, ts, fs, checkCoherence) ==
    [kind |-> "IfStmt", test |-> t, trueStmts |-> ts, falseStmts |-> fs,
     doAllCheck |-> checkCoherence /\ ~g.disableCoherentControlFlow,
     doAnyCheck |-> GetType(t) # NoType /\ IsVaryingType(GetType(t))]

DoStmt(t, s, cc) ==
    [kind |-> "DoStmt", testExpr |-> t, bodyStmts |-> s,
     doCoherentCheck |-> cc /\ ~g.disableCoherentControlFlow]

ForStmt(i, t, s, st, cc) ==
    [kind |-> "ForStmt", init |-> i, test |-> t, step |-> s, stmts |-> st,
     doCoherentCheck |-> cc /\ ~g.disableCoherentControlFlow]

BreakStmt(cc) ==
    [kind |-> "BreakStmt",
     doCoherenceCheck |-> cc /\ ~g.disableCoherentControlFlow]

ContinueStmt(cc) ==
    [kind |-> "ContinueStmt",
     doCoherenceCheck |-> cc /\ ~g.disableCoherentControlFlow]

ReturnStmt(v, cc) ==
    [kind |-> "ReturnStmt", val |-> v,
     doCoherenceCheck |-> cc /\ ~g.disableCoherentControlFlow]

StmtList(ss) == [kind |-> "StmtList", stmts |-> ss]

PrintStmt(f, v) == [kind |-> "PrintStmt", format |-> f, values |-> v]

AssertStmt(msg, e) == [kind |-> "AssertStmt", message |-> msg, expr |-> e]

IsStmtList(s) == s.kind = "StmtList"

---------------------------------------------------------------------------
(* FunctionEmitContext (ctx.h).  Blocks are numbered from 1; NoBlock is    *)
(* the null block.  Masks and values are symbolic terms in prefix form.    *)

NoBlock == 0
NoValue == <<>>
LLVMMaskAllOn == <<"AllOn">>

NewContext(fnMask) ==
    [bblock |-> 1, nblocks |-> 1, blk |-> [k \in {} |-> 0],
     internalMask |-> LLVMMaskAllOn, functionMask |-> fnMask,
     cf |-> <<>>, scopeDepth |-> 0,
     breakTarget |-> NoBlock, continueTarget |-> NoBlock,
     trace |-> <<>>, calls |-> <<>>, nest |-> 0,
     diag |-> <<>>, fault |-> <<>>, syms |-> [n \in {} |-> 0]]

\* one emit-context operation, as recorded in ctx.trace; nest is the depth
\* of the EmitCode call that issued it
Op(name, b1, b2, v, nest) ==
    [op |-> name, b1 |-> b1, b2 |-> b2, v |-> v, nest |-> nest]

Emit(c, name, b1, b2, v) ==
    [c EXCEPT !.trace = Append(@, Op(name, b1, b2, v, c.nest))]

\* a failed assert(), a FATAL() or a null dereference: the compiler dies
Fault(c, what) == [c EXCEPT !.fault = Append(@, what)]

Error(c, what) == [c EXCEPT !.diag = Append(@, [sev |-> "error", what |-> what, pass |-> "emit"])]

Warning(c, what) == [c EXCEPT !.diag = Append(@, [sev |-> "warning", what |-> what, pass |-> "emit"])]

GetCurrentBasicBlock(c) == c.bblock

SetDebugPos(c) == Emit(c, "SetDebugPos", 0, 0, <<>>)

AddInstrumentationPoint(c, note) == Emit(c, "AddInstrumentationPoint", 0, 0, <<>>)

\* The llvm::BasicBlock* locals of the running EmitCode are kept in c.blk
\* under the call depth and the name the block was created with; the
\* operations below take a block by that name.
Block(c, name) ==
    IF <<c.nest, name>> \in DOMAIN c.blk THEN c.blk[<<c.nest, name>>] ELSE NoBlock

CreateBasicBlock(c, name) ==
    Emit([c EXCEPT !.nblocks = @ + 1,
                   !.blk = (<<c.nest, name>> :> (c.nblocks + 1)) @@ @],
         "CreateBasicBlock", c.nblocks + 1, 0, <<name>>)

SetCurrentBasicBlock(c, b) ==
    Emit([c EXCEPT !.bblock = Block(c, b)], "SetCurrentBasicBlock", Block(c, b), 0, <<>>)

\* BranchInst(dest): emits the terminator and clears the current block
BranchInst(c, dest) ==
    Emit([c EXCEPT !.bblock = NoBlock], "BranchInst", Block(c, dest), 0, <<>>)

\* if (ctx->GetCurrentBasicBlock()) ctx->BranchInst(dest);
BranchInstIfLive(c, dest) ==
    IF GetCurrentBasicBlock(c) # NoBlock THEN BranchInst(c, dest) ELSE c

\* BranchInst(trueBlock, falseBlock, test)
CondBranchInst(c, bt, bf, test) ==
    Emit([c EXCEPT !.bblock = NoBlock], "CondBranchInst", Block(c, bt), Block(c, bf), test)

BranchIfMaskAny(c, bt, bf) ==
    Emit([c EXCEPT !.bblock = NoBlock], "BranchIfMaskAny", Block(c, bt), Block(c, bf),
         c.internalMask)

BranchIfMaskAll(c, bt, bf) ==
    Emit([c EXCEPT !.bblock = NoBlock], "BranchIfMaskAll", Block(c, bt), Block(c, bf),
         c.internalMask)

StartScope(c) == Emit([c EXCEPT !.scopeDepth = @ + 1], "StartScope", 0, 0, <<>>)

EndScope(c) ==
    IF c.scopeDepth <= 0
    THEN Emit(Fault(c, "EndScope without StartScope"), "EndScope", 0, 0, <<>>)
    ELSE Emit([c EXCEPT !.scopeDepth = @ - 1], "EndScope", 0, 0, <<>>)

GetInternalMask(c) == c.internalMask
GetFunctionMask(c) == c.functionMask

GetFullMask(c) ==
    IF c.internalMask = LLVMMaskAllOn /\ c.functionMask = LLVMMaskAllOn
    THEN LLVMMaskAllOn
    ELSE <<"and">> \o c.internalMask \o c.functionMask

SetInternalMask(c, m) ==
    Emit([c EXCEPT !.internalMask = m], "SetInternalMask", 0, 0, m)

SetInternalMaskAnd(c, old, test) ==
    Emit([c EXCEPT !.internalMask = <<"and">> \o old \o test],
         "SetInternalMaskAnd", 0, 0, <<"and">> \o old \o test)

SetInternalMaskAndNot(c, old, test) ==
    Emit([c EXCEPT !.internalMask = <<"andnot">> \o old \o test],
         "SetInternalMaskAndNot", 0, 0, <<"andnot">> \o old \o test)

SetFunctionMask(c, m) ==
    Emit([c EXCEPT !.functionMask = m], "SetFunctionMask", 0, 0, m)

SetLoopMask(c, m) == Emit(c, "SetLoopMask", 0, 0, m)

RestoreContinuedLanes(c) == Emit(c, "RestoreContinuedLanes", 0, 0, <<>>)

\* All(v) / Any(v) / LaneMask(v) and the llvm::Value each returns
AllValue(v) == <<"all">> \o v
AnyValue(v) == <<"any">> \o v
LaneMaskValue(v) == <<"lanemask">> \o v
AllInst(c, v) == Emit(c, "All", 0, 0, v)
AnyInst(c, v) == Emit(c, "Any", 0, 0, v)
LaneMask(c, v) == Emit(c, "LaneMask", 0, 0, v)

CFInfo(type, isUniform, savedMask, bt, ct) ==
    [type |-> type, isUniform |-> isUniform, savedMask |-> savedMask,
     savedBreakTarget |-> bt, savedContinueTarget |-> ct]

StartUniformIf(c) ==
    Emit([c EXCEPT !.cf = Append(@, CFInfo("If", TRUE, c.internalMask, 0, 0))],
         "StartUniformIf", 0, 0, <<>>)

StartVaryingIf(c, oldMask) ==
    Emit([c EXCEPT !.cf = Append(@, CFInfo("If", FALSE, oldMask, 0, 0))],
         "StartVaryingIf", 0, 0, oldMask)

\* the control-flow stack without its innermost entry, the masks and jump
\* targets restored from that entry
PopCF(c) ==
    [c EXCEPT !.cf = SubSeq(@, 1, Len(@) - 1),
              !.breakTarget = IF c.cf[Len(c.cf)].type = "Loop"
                              THEN c.cf[Len(c.cf)].savedBreakTarget ELSE @,
              !.continueTarget = IF c.cf[Len(c.cf)].type = "Loop"
                                 THEN c.cf[Len(c.cf)].savedContinueTarget ELSE @,
              !.internalMask = IF c.cf[Len(c.cf)].isUniform THEN @
                               ELSE c.cf[Len(c.cf)].savedMask]

\* pops the innermost control-flow entry, which must be an if
EndIf(c) ==
    IF Len(c.cf) = 0
    THEN Emit(Fault(c, "EndIf without StartIf"), "EndIf", 0, 0, <<>>)
    ELSE IF c.cf[Len(c.cf)].type # "If"
    THEN Emit(Fault(PopCF(c), "EndIf closes a loop"), "EndIf", 0, 0, <<>>)
    ELSE Emit(PopCF(c), "EndIf", 0, 0, <<>>)

StartLoop(c, bt, ct, uniformCF) ==
    Emit([c EXCEPT !.cf = Append(@, CFInfo("Loop", uniformCF, c.internalMask,
                                           c.breakTarget, c.continueTarget)),
                   !.breakTarget = Block(c, bt), !.continueTarget = Block(c, ct)],
         "StartLoop", Block(c, bt), Block(c, ct),
         <<IF uniformCF THEN "uniform" ELSE "varying">>)

\* pops the innermost control-flow entry, which must be a loop
EndLoop(c) ==
    IF Len(c.cf) = 0
    THEN Emit(Fault(c, "EndLoop without StartLoop"), "EndLoop", 0, 0, <<>>)
    ELSE IF c.cf[Len(c.cf)].type # "Loop"
    THEN Emit(Fault(PopCF(c), "EndLoop closes an if"), "EndLoop", 0, 0, <<>>)
    ELSE Emit(PopCF(c), "EndLoop", 0, 0, <<>>)

\* number of enclosing loops and ifs with a varying test
VaryingCFDepth(c) == Cardinality({i \in 1..Len(c.cf) : ~c.cf[i].isUniform})

RECURSIVE IfsInLoopAllUniformFrom(_, _)
IfsInLoopAllUniformFrom(c, i) ==
    IF i = 0 THEN TRUE
    ELSE IF c.cf[i].type = "Loop" THEN TRUE
    ELSE IF ~c.cf[i].isUniform THEN FALSE
    ELSE IfsInLoopAllUniformFrom(c, i - 1)

\* every if between here and the innermost loop has a uniform test
ifsInLoopAllUniform(c) == IfsInLoopAllUniformFrom(c, Len(c.cf))

\* Break(doCoherenceCheck): a real jump when all running lanes take it,
\* a mask update otherwise
Break(c, doCoherenceCheck) ==
    IF c.breakTarget = NoBlock
    THEN Error(Emit(c, "Break", 0, 0, <<"illegal">>), "break outside loop")
    ELSE IF ifsInLoopAllUniform(c) \/ c.internalMask = LLVMMaskAllOn
    THEN Emit([c EXCEPT !.bblock = NoBlock], "Break", c.breakTarget, 0, <<"jump">>)
    ELSE Emit([c EXCEPT !.internalMask = <<"brk">> \o @], "Break", c.breakTarget, 0, <<"mask">>)

Continue(c, doCoherenceCheck) ==
    IF c.continueTarget = NoBlock
    THEN Error(Emit(c, "Continue", 0, 0, <<"illegal">>), "continue outside loop")
    ELSE IF ifsInLoopAllUniform(c) \/ c.internalMask = LLVMMaskAllOn
    THEN Emit([c EXCEPT !.bblock = NoBlock], "Continue", c.continueTarget, 0, <<"jump">>)
    ELSE Emit([c EXCEPT !.internalMask = <<"cont">> \o @], "Continue", c.continueTarget, 0, <<"mask">>)

\* CurrentLanesReturned(val, doCoherenceCheck): a real return under uniform
\* control flow, a mask update otherwise
CurrentLanesReturned(c, val, doCoherenceCheck) ==
    IF VaryingCFDepth(c) = 0
    THEN Emit([c EXCEPT !.bblock = NoBlock], "CurrentLanesReturned", 0, 0, <<"ret">>)
    ELSE Emit([c EXCEPT !.internalMask = <<"retd">> \o @], "CurrentLanesReturned", 0, 0, <<"mask">>)

\* instructions; the llvm::Value each returns is a term over its operands
AllocaInst(c, name) == Emit(c, "AllocaInst", 0, 0, <<name>>)
StoreInst(c, v, p) == Emit(c, "StoreInst", 0, 0, v \o <<"->">> \o p)
GetElementPtrInst(c, base, i) == Emit(c, "GetElementPtrInst", i, 0, base)
\* the llvm::Value GetElementPtrInst(base, 0, i) returns
ElementPtr(base, i) == base \o <<"elt", ToString(i)>>
BitCastInst(c, v) == Emit(c, "BitCastInst", 0, 0, v)
GetStringPtr(c, s) == Emit(c, "GetStringPtr", 0, 0, s)
StringPtr(s) == <<"str">> \o s
CallInst(c, fn, args) == Emit(c, "CallInst", 0, 0, <<fn>> \o args)
EmitVariableDebugInfo(c, sym) == Emit(c, "EmitVariableDebugInfo", 0, 0, <<sym>>)

\* expr->GetValue(ctx): the expression's own instructions are one operation;
\* ValueOf(e) is the llvm::Value returned, NoValue for NULL
GetValue(e, c) == Emit(c, "GetValue", 0, 0, <<e.id>>)
ValueOf(e) == IF e.val THEN <<e.id>> ELSE NoValue

---------------------------------------------------------------------------
(* Cost constants and the predication threshold (ispc.h).                  *)

COST_COHERENT_BREAK_CONTINE == 4
COST_REGULAR_BREAK_CONTINUE == 2
COST_FUNCALL == 4
COST_RETURN == 4
COST_UNIFORM_IF == 2
COST_VARYING_IF == 3
COST_UNIFORM_LOOP == 4
COST_VARYING_LOOP == 6
COST_ASSERT == 8
PREDICATE_SAFE_IF_STATEMENT_COST == 6

RECURSIVE SumInitCost(_)
SumInitCost(vs) ==
    IF Len(vs) = 0 THEN 0
    ELSE (IF Head(vs).init.kind = "NoExpr" THEN 0 ELSE ExprEstimateCost(Head(vs).init))
         + SumInitCost(Tail(vs))

---------------------------------------------------------------------------
\* lSafeToRunWithAllLanesOff on an expression

\* an IndexExpr test that lets the index one past the last element through
lSafeIndexExprOnePast(e) ==
    LET base == e.exprs[1]
        index == e.exprs[2]
        type0 == GetType(base)
        type == IF IsReferenceType(type0) THEN GetReferenceTarget(type0) ELSE type0
    IN  IF base.kind = "NoExpr" THEN FALSE
        ELSE IF type0 = NoType \/ index.kind # "ConstExpr" THEN FALSE
        ELSE IF ~IsSequentialType(type) THEN FALSE
        ELSE IF GetElementCount(type) = 0 THEN FALSE
        ELSE \A i \in 1..Len(index.ints) :
                ~(index.ints[i] < 0 \/ index.ints[i] > GetElementCount(type))

\* the IndexExpr case of lSafeToRunWithAllLanesOff(Expr *); the base of a
\* type-checked IndexExpr is an array or a vector (assert(seqType != NULL))
lSafeIndexExpr(e) ==
    LET base == e.exprs[1]
        index == e.exprs[2]
        type0 == GetType(base)
        type == IF IsReferenceType(type0) THEN GetReferenceTarget(type0) ELSE type0
    IN  IF base.kind = "NoExpr" THEN FALSE
        ELSE IF type0 = NoType \/ index.kind # "ConstExpr" THEN FALSE
        ELSE IF ~IsSequentialType(type) THEN FALSE
        ELSE IF GetElementCount(type) = 0 THEN FALSE
        ELSE \A i \in 1..Len(index.ints) :
                ~(index.ints[i] < 0 \/ index.ints[i] >= GetElementCount(type))

RECURSIVE lSafeToRunWithAllLanesOffExpr(_)
lSafeToRunWithAllLanesOffExpr(e) ==
    LET sub(i) == lSafeToRunWithAllLanesOffExpr(e.exprs[i])
    IN
    CASE e.kind = "NoExpr" -> FALSE
      [] e.kind = "UnaryExpr" -> sub(1)
      [] e.kind = "BinaryExpr" -> sub(1) /\ sub(2)
      [] e.kind = "AssignExpr" -> sub(1) /\ sub(2)
      [] e.kind = "SelectExpr" -> sub(1) /\ sub(2) /\ sub(3)
      [] e.kind = "ExprList" -> \A i \in 1..Len(e.exprs) : sub(i)
      [] e.kind = "FunctionCallExpr" -> FALSE
      [] e.kind = "IndexExpr" -> lSafeIndexExpr(e)
      [] e.kind = "MemberExpr" -> sub(1)
      [] e.kind = "ConstExpr" -> TRUE
      [] e.kind = "TypeCastExpr" -> sub(1)
      [] e.kind = "ReferenceExpr" -> sub(1)
      [] e.kind = "DereferenceExpr" -> sub(1)
      [] e.kind \in {"SymbolExpr", "FunctionSymbolExpr", "SyncExpr"} -> TRUE
      [] OTHER -> FALSE

\* lSafeToRunWithAllLanesOff on a statement

RECURSIVE lSafeToRunWithAllLanesOff(_)
\* a predicate that lets an assert through when its test is safe
lSafeToRunWithAssert(s) ==
    CASE s.kind = "Null" -> TRUE
      [] s.kind = "ExprStmt" -> lSafeToRunWithAllLanesOffExpr(s.expr)
      [] s.kind = "DeclStmt" ->
            \A i \in 1..Len(s.vars) : lSafeToRunWithAllLanesOffExpr(s.vars[i].init)
      [] s.kind = "IfStmt" ->
            /\ lSafeToRunWithAllLanesOffExpr(s.test)
            /\ lSafeToRunWithAllLanesOff(s.trueStmts)
            /\ lSafeToRunWithAllLanesOff(s.falseStmts)
      [] s.kind = "DoStmt" ->
            /\ lSafeToRunWithAllLanesOffExpr(s.testExpr)
            /\ lSafeToRunWithAllLanesOff(s.bodyStmts)
      [] s.kind = "ForStmt" ->
            /\ lSafeToRunWithAllLanesOff(s.init)
            /\ lSafeToRunWithAllLanesOffExpr(s.test)
            /\ lSafeToRunWithAllLanesOff(s.step)
            /\ lSafeToRunWithAllLanesOff(s.stmts)
      [] s.kind \in {"BreakStmt", "ContinueStmt"} -> TRUE
      [] s.kind = "ReturnStmt" -> lSafeToRunWithAllLanesOffExpr(s.val)
      [] s.kind = "StmtList" ->
            \A i \in 1..Len(s.stmts) : lSafeToRunWithAllLanesOff(s.stmts[i])
      [] s.kind = "PrintStmt" -> lSafeToRunWithAllLanesOffExpr(s.values)
      [] s.kind = "AssertStmt" -> lSafeToRunWithAllLanesOffExpr(s.expr)
      [] OTHER -> FALSE

lSafeToRunWithAllLanesOff(s) ==
    CASE s.kind = "Null" -> TRUE
      [] s.kind = "ExprStmt" -> lSafeToRunWithAllLanesOffExpr(s.expr)
      [] s.kind = "DeclStmt" ->
            \A i \in 1..Len(s.vars) : lSafeToRunWithAllLanesOffExpr(s.vars[i].init)
      [] s.kind = "IfStmt" ->
            /\ lSafeToRunWithAllLanesOffExpr(s.test)
            /\ lSafeToRunWithAllLanesOff(s.trueStmts)
            /\ lSafeToRunWithAllLanesOff(s.falseStmts)
      [] s.kind = "DoStmt" ->
            /\ lSafeToRunWithAllLanesOffExpr(s.testExpr)
            /\ lSafeToRunWithAllLanesOff(s.bodyStmts)
      [] s.kind = "ForStmt" ->
            /\ lSafeToRunWithAllLanesOff(s.init)
            /\ lSafeToRunWithAllLanesOffExpr(s.test)
            /\ lSafeToRunWithAllLanesOff(s.step)
            /\ lSafeToRunWithAllLanesOff(s.stmts)
      [] s.kind \in {"BreakStmt", "ContinueStmt"} -> TRUE
      [] s.kind = "ReturnStmt" -> lSafeToRunWithAllLanesOffExpr(s.val)
      [] s.kind = "StmtList" ->
            \A i \in 1..Len(s.stmts) : lSafeToRunWithAllLanesOff(s.stmts[i])
      [] s.kind = "PrintStmt" -> lSafeToRunWithAllLanesOffExpr(s.values)
      [] s.kind = "AssertStmt" -> FALSE
      [] OTHER -> FALSE

---------------------------------------------------------------------------
\* lHasVaryingBreakOrContinue(stmt, inVaryingCF)

\* the value of inVaryingCF inside the branches of if statement s
IfVaryingCF(s, inVaryingCF) ==
    IF s.test.kind # "NoExpr" /\ GetType(s.test) # NoType
    THEN inVaryingCF \/ IsVaryingType(GetType(s.test))
    ELSE inVaryingCF

RECURSIVE lHasVaryingBreakOrContinue(_, _)

\* a scan that goes on into the bodies of nested loops
lHasVaryingBreakOrContinueIntoLoops(s, inVaryingCF) ==
    CASE s.kind = "StmtList" ->
            \E i \in 1..Len(s.stmts) :
                lHasVaryingBreakOrContinue(s.stmts[i], inVaryingCF)
      [] s.kind = "IfStmt" ->
            \/ lHasVaryingBreakOrContinue(s.trueStmts, IfVaryingCF(s, inVaryingCF))
            \/ lHasVaryingBreakOrContinue(s.falseStmts, IfVaryingCF(s, inVaryingCF))
      [] s.kind = "DoStmt" -> lHasVaryingBreakOrContinue(s.bodyStmts, inVaryingCF)
      [] s.kind = "ForStmt" -> lHasVaryingBreakOrContinue(s.stmts, inVaryingCF)
      [] s.kind = "BreakStmt" -> inVaryingCF
      [] s.kind = "ContinueStmt" -> inVaryingCF
      [] OTHER -> FALSE

lHasVaryingBreakOrContinue(s, inVaryingCF) ==
    CASE s.kind = "StmtList" ->
            \E i \in 1..Len(s.stmts) :
                lHasVaryingBreakOrContinue(s.stmts[i], inVaryingCF)
      [] s.kind = "IfStmt" ->
            \/ lHasVaryingBreakOrContinue(s.trueStmts, IfVaryingCF(s, inVaryingCF))
            \/ lHasVaryingBreakOrContinue(s.falseStmts, IfVaryingCF(s, inVaryingCF))
      [] s.kind = "BreakStmt" -> inVaryingCF
      [] s.kind = "ContinueStmt" -> inVaryingCF
      [] OTHER -> FALSE

---------------------------------------------------------------------------
(* EstimateCost                                                            *)

\* the uniformTest of ForStmt::EmitCode and ForStmt::EstimateCost; the type
\* of a present test is read without a null check
ForUniformTest(s) ==
    IF s.test.kind # "NoExpr"
    THEN IsUniformType(GetType(s.test))
    ELSE ~g.disableUniformControlFlow /\ ~lHasVaryingBreakOrContinue(s.stmts, FALSE)

RECURSIVE EstimateCost(_)
RECURSIVE SumStmtCost(_)
SumStmtCost(ss) ==
    IF Len(ss) = 0 THEN 0 ELSE EstimateCost(Head(ss)) + SumStmtCost(Tail(ss))

EstimateCost(s) ==
    LET ecost(e) == IF e.kind = "NoExpr" THEN 0 ELSE ExprEstimateCost(e)
    IN
    CASE s.kind = "Null" -> 0
      [] s.kind = "ExprStmt" -> ecost(s.expr)
      [] s.kind = "DeclStmt" ->
            SumInitCost(s.vars)
      [] s.kind = "IfStmt" ->
            (IF s.test.kind # "NoExpr" /\ GetType(s.test) # NoType
             THEN IF IsUniformType(GetType(s.test)) THEN COST_UNIFORM_IF
                  ELSE COST_VARYING_IF
             ELSE 0)
            + ecost(s.test) + EstimateCost(s.trueStmts) + EstimateCost(s.falseStmts)
      [] s.kind = "DoStmt" -> ecost(s.testExpr) + EstimateCost(s.bodyStmts)
      [] s.kind = "ForStmt" ->
            EstimateCost(s.init) + ecost(s.test) + EstimateCost(s.step)
            + EstimateCost(s.stmts)
            + (IF ForUniformTest(s) THEN COST_UNIFORM_LOOP ELSE COST_VARYING_LOOP)
      [] s.kind \in {"BreakStmt", "ContinueStmt"} ->
            IF s.doCoherenceCheck THEN COST_COHERENT_BREAK_CONTINE
            ELSE COST_REGULAR_BREAK_CONTINUE
      [] s.kind = "ReturnStmt" -> COST_RETURN + ecost(s.val)
      [] s.kind = "StmtList" -> SumStmtCost(s.stmts)
      [] s.kind = "PrintStmt" -> COST_FUNCALL + ecost(s.values)
      [] s.kind = "AssertStmt" -> ecost(s.expr) + COST_ASSERT
      [] OTHER -> 0

---------------------------------------------------------------------------
(* TypeConvertExpr (expr.h): the converted expression, or NoExpr after it  *)
(* has reported that the conversion is impossible.                         *)

RECURSIVE CanConvert(_, _)
CanConvert(from, to) ==
    IF from = NoType \/ to = NoType THEN FALSE
    ELSE IF GetAsNonConstType(from) = GetAsNonConstType(to) THEN TRUE
    ELSE IF IsReferenceType(to) THEN FALSE
    ELSE IF IsReferenceType(from) THEN CanConvert(GetReferenceTarget(from), to)
    ELSE IF IsVaryingType(from) /\ IsUniformType(to) THEN FALSE
    ELSE IF IsAtomicType(to) THEN IsAtomicType(from) \/ IsEnumType(from)
    ELSE IF to.cls = "vector" THEN IsAtomicType(from) /\ CanConvert(from, to.elems[1])
    ELSE FALSE

TypeConvertExpr(e, type) ==
    IF ~CanConvert(GetType(e), type) THEN NoExpr
    ELSE IF GetType(e) = type THEN e
    ELSE TypeCastExpr(type, e)

---------------------------------------------------------------------------
(* TypeCheck.  A pass result is [s |-> statement or NULL, d |-> the        *)
(* diagnostics it reported].                                               *)

TcError(what) == [sev |-> "error", what |-> what, pass |-> "typecheck"]

Checked(s, d) == [s |-> s, d |-> d]

RECURSIVE TypeCheck(_)

\* a test handling that checks the test's type and leaves out the cast
CheckTestUncast(test, uniformTest) ==
    LET t1 == IF test.kind # "NoExpr" THEN ExprTypeCheck(test) ELSE NoExpr
        testType == GetType(t1)
    IN  IF t1.kind = "NoExpr" \/ testType = NoType THEN [t |-> t1, failed |-> FALSE]
        ELSE [t |-> t1, failed |-> ~IsNumericType(testType) /\ ~IsBoolType(testType)]

\* the shared test handling of IfStmt, DoStmt, ForStmt: [t |-> new test,
\* failed |-> the "can't be converted to boolean" error was reported].
\* uniformTest decides the type the test is cast to.
CheckTest(test, uniformTest) ==
    LET t1 == IF test.kind # "NoExpr" THEN ExprTypeCheck(test) ELSE NoExpr
        testType == GetType(t1)
    IN  IF t1.kind = "NoExpr" \/ testType = NoType THEN [t |-> t1, failed |-> FALSE]
        ELSE IF ~IsNumericType(testType) /\ ~IsBoolType(testType)
        THEN [t |-> t1, failed |-> TRUE]
        ELSE [t |-> TypeCastExpr(IF uniformTest THEN UniformBool ELSE VaryingBool, t1),
              failed |-> FALSE]

SubCheck(s) == IF s.kind = "Null" THEN Checked(NULL, <<>>) ELSE TypeCheck(s)

ExprStmt_TypeCheck(s) ==
    Checked([s EXCEPT !.expr = IF @.kind # "NoExpr" THEN ExprTypeCheck(@) ELSE @], <<>>)

\* the loop of DeclStmt::TypeCheck over vars[i], from index i on
RECURSIVE DeclTypeCheckVars(_, _, _)
DeclTypeCheckVars(vs, i, encounteredError) ==
    IF i > Len(vs) THEN [vars |-> vs, err |-> encounteredError, d |-> <<>>]
    ELSE IF vs[i].sym.name = "" THEN DeclTypeCheckVars(vs, i + 1, TRUE)
    ELSE IF vs[i].init.kind = "NoExpr" THEN DeclTypeCheckVars(vs, i + 1, encounteredError)
    ELSE LET init1 == ExprTypeCheck(vs[i].init)
             type == vs[i].sym.type
             convert == init1.kind # "NoExpr"
                        /\ (IsAtomicType(type) \/ IsEnumType(type))
                        /\ init1.kind # "ExprList"
             init2 == IF convert THEN TypeConvertExpr(init1, type) ELSE init1
             bad == convert /\ init2.kind = "NoExpr"
             rest == DeclTypeCheckVars([vs EXCEPT ![i].init = init2], i + 1,
                                       encounteredError \/ bad)
         IN  [rest EXCEPT !.d = (IF bad THEN <<TcError("can't convert initializer")>>
                                 ELSE <<>>) \o @]

\* a DeclStmt::TypeCheck that returns the statement whatever it has found
DeclStmt_TypeCheckKeeps(s) ==
    LET r == DeclTypeCheckVars(s.vars, 1, FALSE)
    IN  Checked([s EXCEPT !.vars = r.vars], r.d)

DeclStmt_TypeCheck(s) ==
    LET r == DeclTypeCheckVars(s.vars, 1, FALSE)
    IN  Checked(IF r.err THEN NULL ELSE [s EXCEPT !.vars = r.vars], r.d)

IfStmt_TypeCheck(s) ==
    LET isUniform == GetType(ExprTypeCheck(s.test)) # NoType
                     /\ IsUniformType(GetType(ExprTypeCheck(s.test)))
                     /\ ~g.disableUniformControlFlow
        ct == CheckTest(s.test, isUniform)
        ts == SubCheck(s.trueStmts)
        fs == SubCheck(s.falseStmts)
    IN  IF ct.failed
        THEN Checked(NULL, <<TcError("can't convert if test to bool")>>)
        ELSE Checked([s EXCEPT !.test = ct.t, !.trueStmts = ts.s, !.falseStmts = fs.s],
                     ts.d \o fs.d)

\* a uniformTest that does not look for break and continue in the body
LoopUniformTestOfTypeOnly(test, body) ==
    /\ GetType(ExprTypeCheck(test)) # NoType
    /\ IsUniformType(GetType(ExprTypeCheck(test)))
    /\ ~g.disableUniformControlFlow

\* the uniformTest of DoStmt::TypeCheck and ForStmt::TypeCheck
LoopUniformTest(test, body) ==
    /\ GetType(ExprTypeCheck(test)) # NoType
    /\ IsUniformType(GetType(ExprTypeCheck(test)))
    /\ ~g.disableUniformControlFlow
    /\ ~lHasVaryingBreakOrContinue(body, FALSE)

DoStmt_TypeCheck(s) ==
    LET ct == CheckTest(s.testExpr, LoopUniformTest(s.testExpr, s.bodyStmts))
        body == SubCheck(s.bodyStmts)
    IN  IF ct.failed
        THEN Checked(NULL, <<TcError("can't convert do test to bool")>>)
        ELSE Checked([s EXCEPT !.testExpr = ct.t, !.bodyStmts = body.s], body.d)

ForStmt_TypeCheck(s) ==
    LET ct == CheckTest(s.test, LoopUniformTest(s.test, s.stmts))
        i == SubCheck(s.init)
        st == SubCheck(s.step)
        body == SubCheck(s.stmts)
    IN  IF ct.failed
        THEN Checked(NULL, <<TcError("can't convert for test to bool")>>)
        ELSE Checked([s EXCEPT !.test = ct.t, !.init = i.s, !.step = st.s,
                               !.stmts = body.s],
                     i.d \o st.d \o body.d)

ReturnStmt_TypeCheck(s) ==
    Checked([s EXCEPT !.val = IF @.kind # "NoExpr" THEN ExprTypeCheck(@) ELSE @], <<>>)

\* the loop of StmtList::TypeCheck over stmts[i], from index i on
RECURSIVE StmtListTypeCheckFrom(_, _)
StmtListTypeCheckFrom(ss, i) ==
    IF i > Len(ss) THEN [stmts |-> ss, d |-> <<>>]
    ELSE LET r == SubCheck(ss[i])
             rest == StmtListTypeCheckFrom([ss EXCEPT ![i] = r.s], i + 1)
         IN  [rest EXCEPT !.d = r.d \o @]

\* a StmtList::TypeCheck that fails when one of its statements fails
StmtList_TypeCheckAllOrNothing(s) ==
    LET r == StmtListTypeCheckFrom(s.stmts, 1)
    IN  IF \E i \in 1..Len(s.stmts) : s.stmts[i] # NULL /\ r.stmts[i] = NULL
        THEN Checked(NULL, r.d)
        ELSE Checked([s EXCEPT !.stmts = r.stmts], r.d)

StmtList_TypeCheck(s) ==
    LET r == StmtListTypeCheckFrom(s.stmts, 1)
    IN  Checked([s EXCEPT !.stmts = r.stmts], r.d)

PrintStmt_TypeCheck(s) ==
    Checked([s EXCEPT !.values = IF @.kind # "NoExpr" THEN ExprTypeCheck(@) ELSE @], <<>>)

AssertStmt_TypeCheck(s) ==
    LET ct == CheckTest(s.expr, IsUniformType(GetType(ExprTypeCheck(s.expr))))
    IN  IF ct.failed
        THEN Checked(NULL, <<TcError("can't convert assert test to bool")>>)
        ELSE Checked([s EXCEPT !.expr = ct.t], <<>>)

TypeCheck(s) ==
    CASE s.kind = "ExprStmt" -> ExprStmt_TypeCheck(s)
      [] s.kind = "DeclStmt" -> DeclStmt_TypeCheck(s)
      [] s.kind = "IfStmt" -> IfStmt_TypeCheck(s)
      [] s.kind = "DoStmt" -> DoStmt_TypeCheck(s)
      [] s.kind = "ForStmt" -> ForStmt_TypeCheck(s)
      [] s.kind = "ReturnStmt" -> ReturnStmt_TypeCheck(s)
      [] s.kind = "StmtList" -> StmtList_TypeCheck(s)
      [] s.kind = "PrintStmt" -> PrintStmt_TypeCheck(s)
      [] s.kind = "AssertStmt" -> AssertStmt_TypeCheck(s)
      [] OTHER -> Checked(s, <<>>)

---------------------------------------------------------------------------
(* EmitCode.  Every EmitCode takes the statement and the emit context and  *)
(* yields the emit context after the call.  The symbol table, which        *)
(* DeclStmt::EmitCode updates, travels with the context as c.syms.         *)

RECURSIVE EmitCode(_, _)

\* The last of the contexts cs.  EmitCode runs its steps one after the other;
\* listing the contexts that come back from the nested EmitCode calls, in
\* program order, has them computed in that order.
InOrder(cs) == cs[Len(cs)]

\* assert(ctx->GetCurrentBasicBlock())
AssertCurrentBlock(c, where) ==
    IF GetCurrentBasicBlock(c) = NoBlock
    THEN Fault(c, where)
    ELSE c

ExprStmt_EmitCode(s, c) ==
    IF GetCurrentBasicBlock(c) = NoBlock THEN c
    ELSE IF s.expr.kind # "NoExpr" THEN GetValue(s.expr, SetDebugPos(c))
    ELSE SetDebugPos(c)

\* the Symbol that a VariableDeclaration points to
Symbol(c, v) ==
    IF v.sym.name \in DOMAIN c.syms THEN c.syms[v.sym.name]
    ELSE [name |-> v.sym.name, type |-> v.sym.type,
          storageClass |-> v.sym.storageClass, storagePtr |-> NoValue,
          varyingCFDepth |-> 0, parentFunction |-> "", writes |-> <<>>]

\* sym->field = value, for one of the fields EmitCode assigns; writes keeps
\* the assignments in order, each with the number of operations emitted
\* before it
WriteSymbol(c, name, field, value) ==
    [c EXCEPT !.syms[name] =
         [[@ EXCEPT ![field] = value]
             EXCEPT !.writes = Append(@, [field |-> field, at |-> Len(c.trace)])]]

RECURSIVE lInitSymbol(_, _, _, _, _)

\* an element loop that initializes every element through the pointer to
\* element 0
RECURSIVE lInitElementsFirstPtr(_, _, _, _, _, _)
lInitElementsFirstPtr(c, lvalue, symName, type, exprList, i) ==
    IF i >= Len(exprList.exprs) THEN c
    ELSE lInitElementsFirstPtr(lInitSymbol(GetElementPtrInst(c, lvalue, 0),
                                           ElementPtr(lvalue, 0), symName,
                                           GetElementType(type, i + 1),
                                           exprList.exprs[i + 1]),
                               lvalue, symName, type, exprList, i + 1)

\* the element loop of lInitSymbol, from element i (0-based) on
RECURSIVE lInitElements(_, _, _, _, _, _)
lInitElements(c, lvalue, symName, type, exprList, i) ==
    IF i >= Len(exprList.exprs) THEN c
    ELSE lInitElements(lInitSymbol(GetElementPtrInst(c, lvalue, i), ElementPtr(lvalue, i),
                                   symName, GetElementType(type, i + 1),
                                   exprList.exprs[i + 1]),
                       lvalue, symName, type, exprList, i + 1)

\* initExpr->GetValue(ctx) and, if it gave a value, the store to lvalue
lInitStore(c, initExpr, lvalue) ==
    IF ValueOf(initExpr) # NoValue
    THEN StoreInst(GetValue(initExpr, c), ValueOf(initExpr), lvalue)
    ELSE GetValue(initExpr, c)

\* lInitSymbol once initExpr is known not to be an ExprList: conv is
\* TypeConvertExpr(initExpr, type), NULL when the conversion failed
lInitSymbolConverted(c, lvalue, type, conv) ==
    IF conv.kind # "NoExpr" THEN lInitStore(c, conv, lvalue)
    ELSE IF IsAtomicType(type) \/ IsEnumType(type)
    THEN Error(c, "can't convert initializer")
    ELSE IF IsReferenceType(type)
    THEN Fault(Error(c, "can't convert initializer"),
               "lInitSymbol: initExpr->GetType() on NULL")
    ELSE IF IsCollectionType(type)
    THEN Fault(Error(c, "can't convert initializer"), "lInitSymbol: initExpr->pos on NULL")
    ELSE Fault(Error(c, "can't convert initializer"),
               "FATAL: Unexpected Type in lInitSymbol()")

lInitSymbol(c, lvalue, symName, type, initExpr) ==
    IF initExpr.kind = "NoExpr"
    THEN StoreInst(c, <<"undef">>, lvalue)
    ELSE IF initExpr.kind # "ExprList"
    THEN lInitSymbolConverted(c, lvalue, type, TypeConvertExpr(initExpr, type))
    ELSE IF IsAtomicType(type) \/ IsEnumType(type)
    THEN Error(c, "expression list initializer for atomic or enum")
    ELSE IF IsReferenceType(type)
    THEN IF ~TypeEqual(GetType(initExpr), type)
         THEN Error(c, "initializer for reference must have same reference type")
         ELSE lInitStore(c, initExpr, lvalue)
    ELSE IF IsCollectionType(type)
    THEN IF Len(initExpr.exprs) # GetElementCount(type)
         THEN Error(c, "initializer requires N values; M provided")
         ELSE lInitElements(c, lvalue, symName, type, initExpr, 0)
    ELSE Fault(c, "FATAL: Unexpected Type in lInitSymbol()")

\* the symbol table with the Symbol of declaration v in it
WithSymbol(c, v) ==
    IF v.sym.name \in DOMAIN c.syms THEN c
    ELSE [c EXCEPT !.syms = (v.sym.name :> Symbol(c, v)) @@ @]

\* an iteration that leaves the declared type of an unsized array as it is
DeclEmitVarUnsized(v, c) ==
    LET name == v.sym.name
        type == Symbol(c, v).type
        initExpr == v.init
        unsized == type.cls = "array" /\ GetElementCount(type) = 0
        c2 == SetDebugPos(WriteSymbol(WithSymbol(c, v), name, "varyingCFDepth",
                                      VaryingCFDepth(c)))
        c3 == IF initExpr.kind # "NoExpr" /\ initExpr.kind # "ConstExpr"
              THEN Error(c2, "static initializer must be a constant")
              ELSE c2
        cinit == IF initExpr.kind = "ConstExpr" THEN <<initExpr.id>> ELSE <<"zero">>
    IN
    IF type = NoType THEN c
    ELSE IF unsized /\ initExpr.kind # "ExprList"
    THEN Error(c2, "unsized array without initializer")
    ELSE IF IsReferenceType(type) /\ initExpr.kind = "NoExpr"
    THEN Error(c2, "must provide initializer for reference")
    ELSE IF v.sym.storageClass = "static"
    THEN EmitVariableDebugInfo(
             Emit(WriteSymbol(c3, name, "storagePtr", <<"static.", name>>),
                  "GlobalVariable", 0, 0, cinit),
             name)
    ELSE lInitSymbol(
             WriteSymbol(
                 EmitVariableDebugInfo(
                     WriteSymbol(AllocaInst(c2, name), name, "storagePtr", <<name>>),
                     name),
                 name, "parentFunction", <<"f">>),
             <<name>>, name, type, initExpr)

\* an iteration that records the parent function of a stack variable
\* before it emits the debug info
DeclEmitVarParentFirst(v, c) ==
    LET name == v.sym.name
        type0 == Symbol(c, v).type
        initExpr == v.init
        unsized == type0.cls = "array" /\ GetElementCount(type0) = 0
        type == IF unsized /\ initExpr.kind = "ExprList"
                THEN GetSizedArray(type0, Len(initExpr.exprs)) ELSE type0
        c1 == SetDebugPos(WriteSymbol(WithSymbol(c, v), name, "varyingCFDepth",
                                      VaryingCFDepth(c)))
        c2 == IF type # type0 THEN WriteSymbol(c1, name, "type", type) ELSE c1
        c3 == IF initExpr.kind # "NoExpr" /\ initExpr.kind # "ConstExpr"
              THEN Error(c2, "static initializer must be a constant")
              ELSE c2
        cinit == IF initExpr.kind = "ConstExpr" THEN <<initExpr.id>> ELSE <<"zero">>
    IN
    IF type0 = NoType THEN c
    ELSE IF unsized /\ initExpr.kind # "ExprList"
    THEN Error(c1, "unsized array without initializer")
    ELSE IF IsReferenceType(type) /\ initExpr.kind = "NoExpr"
    THEN Error(c2, "must provide initializer for reference")
    ELSE IF v.sym.storageClass = "static"
    THEN EmitVariableDebugInfo(
             Emit(WriteSymbol(c3, name, "storagePtr", <<"static.", name>>),
                  "GlobalVariable", 0, 0, cinit),
             name)
    ELSE lInitSymbol(
             EmitVariableDebugInfo(
                 WriteSymbol(
                     WriteSymbol(AllocaInst(c2, name), name, "storagePtr", <<name>>),
                     name, "parentFunction", <<"f">>),
                 name),
             <<name>>, name, type, initExpr)

\* one iteration of the loop of DeclStmt::EmitCode, for vars[i]
DeclEmitVar(v, c) ==
    LET name == v.sym.name
        type0 == Symbol(c, v).type
        initExpr == v.init
        unsized == type0.cls = "array" /\ GetElementCount(type0) = 0
        type == IF unsized /\ initExpr.kind = "ExprList"
                THEN GetSizedArray(type0, Len(initExpr.exprs)) ELSE type0
        c1 == SetDebugPos(WriteSymbol(WithSymbol(c, v), name, "varyingCFDepth",
                                      VaryingCFDepth(c)))
        c2 == IF type # type0 THEN WriteSymbol(c1, name, "type", type) ELSE c1
        c3 == IF initExpr.kind # "NoExpr" /\ initExpr.kind # "ConstExpr"
              THEN Error(c2, "static initializer must be a constant")
              ELSE c2
        cinit == IF initExpr.kind = "ConstExpr" THEN <<initExpr.id>> ELSE <<"zero">>
    IN
    IF type0 = NoType THEN c
    ELSE IF unsized /\ initExpr.kind # "ExprList"
    THEN Error(c1, "unsized array without initializer")
    ELSE IF IsReferenceType(type) /\ initExpr.kind = "NoExpr"
    THEN Error(c2, "must provide initializer for reference")
    ELSE IF v.sym.storageClass = "static"
    THEN EmitVariableDebugInfo(
             Emit(WriteSymbol(c3, name, "storagePtr", <<"static.", name>>),
                  "GlobalVariable", 0, 0, cinit),
             name)
    ELSE lInitSymbol(
             WriteSymbol(
                 EmitVariableDebugInfo(
                     WriteSymbol(AllocaInst(c2, name), name, "storagePtr", <<name>>),
                     name),
                 name, "parentFunction", <<"f">>),
             <<name>>, name, type, initExpr)

RECURSIVE DeclEmitVars(_, _, _)
DeclEmitVars(vs, i, c) ==
    IF i > Len(vs) THEN c ELSE DeclEmitVars(vs, i + 1, DeclEmitVar(vs[i], c))

DeclStmt_EmitCode(s, c) ==
    IF GetCurrentBasicBlock(c) = NoBlock THEN c
    ELSE DeclEmitVars(s.vars, 1, c)

lEmitIfStatements(c, stmts, trueOrFalse) ==
    IF stmts.kind = "Null" THEN c
    ELSE IF ~IsStmtList(stmts)
    THEN EndScope(EmitCode(stmts, AddInstrumentationPoint(StartScope(c), trueOrFalse)))
    ELSE EmitCode(stmts, AddInstrumentationPoint(c, trueOrFalse))

emitMaskedTrueAndFalse(s, c, oldMask, test) ==
    LET c1 == IF s.trueStmts.kind # "Null"
              THEN AssertCurrentBlock(
                       lEmitIfStatements(SetInternalMaskAnd(c, oldMask, test),
                                         s.trueStmts, "true"),
                       "emitMaskedTrueAndFalse true")
              ELSE c
        c2 == IF s.falseStmts.kind # "Null"
              THEN AssertCurrentBlock(
                       lEmitIfStatements(SetInternalMaskAndNot(c1, oldMask, test),
                                         s.falseStmts, "false"),
                       "emitMaskedTrueAndFalse false")
              ELSE c1
    IN  InOrder(<<c1, c2>>)

\* an emitMaskAllOn that leaves the function mask all on when it returns
emitMaskAllOnKeepsMask(s, c, ltest, bDone) ==
    LET c1 == SetInternalMask(c, LLVMMaskAllOn)
        c2 == SetFunctionMask(c1, LLVMMaskAllOn)
        c3 == CreateBasicBlock(c2, "cif_test_all")
        c4 == CreateBasicBlock(c3, "cif_test_none_check")
        c5 == AllInst(c4, ltest)
        c6 == CondBranchInst(c5, "cif_test_all", "cif_test_none_check", AllValue(ltest))
        c7 == StartVaryingIf(SetCurrentBasicBlock(c6, "cif_test_all"), LLVMMaskAllOn)
        c8 == EndIf(lEmitIfStatements(c7, s.trueStmts, "all on, all true"))
        c9 == BranchInstIfLive(c8, bDone)
        c10 == SetCurrentBasicBlock(c9, "cif_test_none_check")
        c11 == CreateBasicBlock(c10, "cif_test_none")
        c12 == CreateBasicBlock(c11, "cif_test_mixed")
        c13 == AnyInst(c12, ltest)
        c14 == CondBranchInst(c13, "cif_test_mixed", "cif_test_none", AnyValue(ltest))
        c15 == StartVaryingIf(SetCurrentBasicBlock(c14, "cif_test_none"), LLVMMaskAllOn)
        c16 == EndIf(lEmitIfStatements(c15, s.falseStmts, "all on, all false"))
        c17 == BranchInstIfLive(c16, bDone)
        c18 == StartVaryingIf(SetCurrentBasicBlock(c17, "cif_test_mixed"), LLVMMaskAllOn)
        c19 == AssertCurrentBlock(emitMaskedTrueAndFalse(s, c18, LLVMMaskAllOn, ltest),
                                  "emitMaskAllOn mixed")
        c20 == BranchInst(EndIf(c19), bDone)
    IN  InOrder(<<c8, c16, c19,
                  SetFunctionMask(SetCurrentBasicBlock(c20, bDone), LLVMMaskAllOn)>>)

emitMaskAllOn(s, c, ltest, bDone) ==
    LET c1 == SetInternalMask(c, LLVMMaskAllOn)
        \* read after SetInternalMask, which leaves the function mask as it was
        oldFunctionMask == GetFunctionMask(c)
        c2 == SetFunctionMask(c1, LLVMMaskAllOn)
        c3 == CreateBasicBlock(c2, "cif_test_all")
        c4 == CreateBasicBlock(c3, "cif_test_none_check")
        c5 == AllInst(c4, ltest)
        c6 == CondBranchInst(c5, "cif_test_all", "cif_test_none_check", AllValue(ltest))
        \* the 'test is all true' case
        c7 == StartVaryingIf(SetCurrentBasicBlock(c6, "cif_test_all"), LLVMMaskAllOn)
        c8 == EndIf(lEmitIfStatements(c7, s.trueStmts, "all on, all true"))
        c9 == BranchInstIfLive(c8, bDone)
        \* all false, or mixed
        c10 == SetCurrentBasicBlock(c9, "cif_test_none_check")
        c11 == CreateBasicBlock(c10, "cif_test_none")
        c12 == CreateBasicBlock(c11, "cif_test_mixed")
        c13 == AnyInst(c12, ltest)
        c14 == CondBranchInst(c13, "cif_test_mixed", "cif_test_none", AnyValue(ltest))
        \* the 'test is all false' case
        c15 == StartVaryingIf(SetCurrentBasicBlock(c14, "cif_test_none"), LLVMMaskAllOn)
        c16 == EndIf(lEmitIfStatements(c15, s.falseStmts, "all on, all false"))
        c17 == BranchInstIfLive(c16, bDone)
        \* the 'mixed true/false' case
        c18 == StartVaryingIf(SetCurrentBasicBlock(c17, "cif_test_mixed"), LLVMMaskAllOn)
        c19 == AssertCurrentBlock(emitMaskedTrueAndFalse(s, c18, LLVMMaskAllOn, ltest),
                                  "emitMaskAllOn mixed")
        c20 == BranchInst(EndIf(c19), bDone)
    IN  InOrder(<<c8, c16, c19,
                  SetFunctionMask(SetCurrentBasicBlock(c20, bDone), oldFunctionMask)>>)

\* ctx->Any(ctx->GetFullMask()) and the branch on its value
BranchOnAnyFullMask(c, bt, bf) ==
    CondBranchInst(AnyInst(c, GetFullMask(c)), bt, bf, AnyValue(GetFullMask(c)))

\* an emitMaskMixed that masks the else statements from the mask the then
\* statements left rather than from the mask at entry
emitMaskMixedFromThen(s, c, oldMask, ltest, bDone) ==
    LET c1 == StartVaryingIf(c, oldMask)
        c2 == CreateBasicBlock(c1, "safe_if_after_true")
        c3 == IF s.trueStmts.kind # "Null"
              THEN LET d1 == CreateBasicBlock(c2, "safe_if_run_true")
                       d2 == SetInternalMaskAnd(d1, oldMask, ltest)
                       d4 == BranchOnAnyFullMask(d2, "safe_if_run_true",
                                                 "safe_if_after_true")
                       d5 == lEmitIfStatements(SetCurrentBasicBlock(d4, "safe_if_run_true"),
                                               s.trueStmts, "mixed, true")
                       d6 == AssertCurrentBlock(d5, "emitMaskMixed true")
                   IN  SetCurrentBasicBlock(BranchInst(d6, "safe_if_after_true"),
                                            "safe_if_after_true")
              ELSE c2
        c4 == IF s.falseStmts.kind # "Null"
              THEN LET d1 == CreateBasicBlock(c3, "safe_if_run_false")
                       d1b == CreateBasicBlock(d1, "safe_if_after_false")
                       d2 == SetInternalMaskAndNot(d1b, GetInternalMask(d1b), ltest)
                       d4 == BranchOnAnyFullMask(d2, "safe_if_run_false",
                                                 "safe_if_after_false")
                       d5 == lEmitIfStatements(SetCurrentBasicBlock(d4, "safe_if_run_false"),
                                               s.falseStmts, "mixed, false")
                       d6 == AssertCurrentBlock(d5, "emitMaskMixed false")
                   IN  SetCurrentBasicBlock(BranchInst(d6, "safe_if_after_false"),
                                            "safe_if_after_false")
              ELSE c3
    IN  InOrder(<<c3, c4, EndIf(SetCurrentBasicBlock(BranchInst(c4, bDone), bDone))>>)

emitMaskMixed(s, c, oldMask, ltest, bDone) ==
    LET c1 == StartVaryingIf(c, oldMask)
        c2 == CreateBasicBlock(c1, "safe_if_after_true")
        c3 == IF s.trueStmts.kind # "Null"
              THEN LET d1 == CreateBasicBlock(c2, "safe_if_run_true")
                       d2 == SetInternalMaskAnd(d1, oldMask, ltest)
                       d4 == BranchOnAnyFullMask(d2, "safe_if_run_true",
                                                 "safe_if_after_true")
                       d5 == lEmitIfStatements(SetCurrentBasicBlock(d4, "safe_if_run_true"),
                                               s.trueStmts, "mixed, true")
                       d6 == AssertCurrentBlock(d5, "emitMaskMixed true")
                   IN  SetCurrentBasicBlock(BranchInst(d6, "safe_if_after_true"),
                                            "safe_if_after_true")
              ELSE c2
        c4 == IF s.falseStmts.kind # "Null"
              THEN LET d1 == CreateBasicBlock(c3, "safe_if_run_false")
                       d1b == CreateBasicBlock(d1, "safe_if_after_false")
                       d2 == SetInternalMaskAndNot(d1b, oldMask, ltest)
                       d4 == BranchOnAnyFullMask(d2, "safe_if_run_false",
                                                 "safe_if_after_false")
                       d5 == lEmitIfStatements(SetCurrentBasicBlock(d4, "safe_if_run_false"),
                                               s.falseStmts, "mixed, false")
                       d6 == AssertCurrentBlock(d5, "emitMaskMixed false")
                   IN  SetCurrentBasicBlock(BranchInst(d6, "safe_if_after_false"),
                                            "safe_if_after_false")
              ELSE c3
    IN  InOrder(<<c3, c4, EndIf(SetCurrentBasicBlock(BranchInst(c4, bDone), bDone))>>)

\* a selection that looks at the coherent check before the full mask
VaryingIfPathCoherentFirst(s, c) ==
    IF s.doAllCheck THEN "coherent"
    ELSE IF GetFullMask(c) = LLVMMaskAllOn THEN "allon"
    ELSE IF s.trueStmts.kind # "Null" \/ s.falseStmts.kind # "Null"
    THEN IF /\ lSafeToRunWithAllLanesOff(s.trueStmts)
            /\ lSafeToRunWithAllLanesOff(s.falseStmts)
            /\ EstimateCost(s.trueStmts) + EstimateCost(s.falseStmts)
                   < PREDICATE_SAFE_IF_STATEMENT_COST
         THEN "predicated"
         ELSE "mixed"
    ELSE "none"

\* which lowering emitVaryingIf selects for s in context c
VaryingIfPath(s, c) ==
    IF GetFullMask(c) = LLVMMaskAllOn THEN "allon"
    ELSE IF s.doAllCheck THEN "coherent"
    ELSE IF s.trueStmts.kind # "Null" \/ s.falseStmts.kind # "Null"
    THEN IF /\ lSafeToRunWithAllLanesOff(s.trueStmts)
            /\ lSafeToRunWithAllLanesOff(s.falseStmts)
            /\ EstimateCost(s.trueStmts) + EstimateCost(s.falseStmts)
                   < PREDICATE_SAFE_IF_STATEMENT_COST
         THEN "predicated"
         ELSE "mixed"
    ELSE "none"

emitVaryingIf(s, c, ltest) ==
    LET oldMask == GetInternalMask(c)
        path == VaryingIfPath(s, c)
    IN
    CASE path = "allon" ->
            SetCurrentBasicBlock(
                emitMaskAllOn(s, CreateBasicBlock(c, "cif_done"), ltest, "cif_done"),
                "cif_done")
      [] path = "coherent" ->
            LET c1 == CreateBasicBlock(c, "cif_mask_all")
                c2 == CreateBasicBlock(c1, "cif_mask_mixed")
                c3 == CreateBasicBlock(c2, "cif_done")
                c4 == AllInst(c3, GetFullMask(c))
                c5 == CondBranchInst(c4, "cif_mask_all", "cif_mask_mixed",
                                     AllValue(GetFullMask(c)))
                c6 == emitMaskAllOn(s, SetCurrentBasicBlock(c5, "cif_mask_all"), ltest,
                                    "cif_done")
                c7 == emitMaskMixed(s, SetCurrentBasicBlock(c6, "cif_mask_mixed"), oldMask,
                                    ltest, "cif_done")
            IN  InOrder(<<c6, SetCurrentBasicBlock(c7, "cif_done")>>)
      [] path = "predicated" ->
            EndIf(AssertCurrentBlock(
                      emitMaskedTrueAndFalse(s, StartVaryingIf(c, oldMask), oldMask, ltest),
                      "emitVaryingIf predicated"))
      [] path = "mixed" ->
            SetCurrentBasicBlock(
                emitMaskMixed(s,
                              CreateBasicBlock(
                                  IF ~s.doAnyCheck THEN Fault(c, "assert(doAnyCheck)") ELSE c,
                                  "if_done"),
                              oldMask, ltest, "if_done"),
                "if_done")
      [] OTHER -> c

\* an EmitCode that branches to the exit block after each branch of a
\* uniform if whether or not the branch has left a current block
IfStmt_EmitCodeAlwaysBranch(s, c) ==
    IF GetCurrentBasicBlock(c) = NoBlock THEN c
    ELSE IF s.test.kind = "NoExpr" THEN c
    ELSE IF GetType(s.test) = NoType THEN c
    ELSE
    LET isUniform == IsUniformType(GetType(s.test))
        c1 == GetValue(s.test, SetDebugPos(c))
        testValue == ValueOf(s.test)
    IN
    IF testValue = NoValue THEN c1
    ELSE IF isUniform
    THEN LET c2 == StartUniformIf(c1)
             c3 == IF s.doAllCheck THEN Warning(c2, "uniform condition supplied to cif")
                   ELSE c2
             c4 == CreateBasicBlock(c3, "if_then")
             c5 == CreateBasicBlock(c4, "if_else")
             c6 == CreateBasicBlock(c5, "if_exit")
             c7 == CondBranchInst(c6, "if_then", "if_else", testValue)
             c8 == lEmitIfStatements(SetCurrentBasicBlock(c7, "if_then"), s.trueStmts,
                                     "true")
             c9 == BranchInst(c8, "if_exit")
             c10 == lEmitIfStatements(SetCurrentBasicBlock(c9, "if_else"), s.falseStmts,
                                      "false")
             c11 == BranchInst(c10, "if_exit")
         IN  InOrder(<<c8, c10, EndIf(SetCurrentBasicBlock(c11, "if_exit"))>>)
    ELSE emitVaryingIf(s, c1, testValue)

IfStmt_EmitCode(s, c) ==
    IF GetCurrentBasicBlock(c) = NoBlock THEN c
    ELSE IF s.test.kind = "NoExpr" THEN c
    ELSE IF GetType(s.test) = NoType THEN c
    ELSE
    LET isUniform == IsUniformType(GetType(s.test))
        c1 == GetValue(s.test, SetDebugPos(c))
        testValue == ValueOf(s.test)
    IN
    IF testValue = NoValue THEN c1
    ELSE IF isUniform
    THEN LET c2 == StartUniformIf(c1)
             c3 == IF s.doAllCheck THEN Warning(c2, "uniform condition supplied to cif")
                   ELSE c2
             c4 == CreateBasicBlock(c3, "if_then")
             c5 == CreateBasicBlock(c4, "if_else")
             c6 == CreateBasicBlock(c5, "if_exit")
             c7 == CondBranchInst(c6, "if_then", "if_else", testValue)
             c8 == lEmitIfStatements(SetCurrentBasicBlock(c7, "if_then"), s.trueStmts,
                                     "true")
             c9 == BranchInstIfLive(c8, "if_exit")
             c10 == lEmitIfStatements(SetCurrentBasicBlock(c9, "if_else"), s.falseStmts,
                                      "false")
             c11 == BranchInstIfLive(c10, "if_exit")
         IN  InOrder(<<c8, c10, EndIf(SetCurrentBasicBlock(c11, "if_exit"))>>)
    ELSE emitVaryingIf(s, c1, testValue)

\* if (stmts) stmts->EmitCode(ctx);
EmitCodeIf(s, c) == IF s.kind # "Null" THEN EmitCode(s, c) ELSE c

\* if (!dynamic_cast<StmtList *>(stmts)) ctx->StartScope();
StartScopeUnlessList(c, s) == IF ~IsStmtList(s) THEN StartScope(c) ELSE c

\* if (!dynamic_cast<StmtList *>(stmts)) ctx->EndScope();
EndScopeUnlessList(c, s) == IF ~IsStmtList(s) THEN EndScope(c) ELSE c

\* the use of the loop test's value: a scalar branch for a uniform loop, a
\* mask update and a branch on any(mask) for a varying one
LoopTestBranch(c, uniformTest, test, bloop, bexit) ==
    IF uniformTest THEN CondBranchInst(c, bloop, bexit, test)
    ELSE BranchIfMaskAny(SetInternalMaskAnd(c, GetInternalMask(c), test), bloop, bexit)

\* a DoStmt::EmitCode that evaluates the test of a varying loop before it
\* restores the lanes that executed a continue
DoStmt_EmitCodeTestFirst(s, c) ==
    IF GetCurrentBasicBlock(c) = NoBlock THEN c
    ELSE IF s.testExpr.kind = "NoExpr" \/ GetType(s.testExpr) = NoType THEN c
    ELSE
    LET uniformTest == IsUniformType(GetType(s.testExpr))
        testValue == ValueOf(s.testExpr)
        c1 == CreateBasicBlock(c, "do_loop")
        c2 == CreateBasicBlock(c1, "do_exit")
        c3 == CreateBasicBlock(c2, "do_test")
        c4 == StartLoop(c3, "do_exit", "do_test", uniformTest)
        c5 == SetCurrentBasicBlock(BranchInst(c4, "do_loop"), "do_loop")
        c6 == SetDebugPos(SetLoopMask(c5, GetInternalMask(c5)))
        c7 == StartScopeUnlessList(c6, s.bodyStmts)
        c8 == AddInstrumentationPoint(c7, "do loop body")
        c9 == BranchInstIfLive(EmitCodeIf(s.bodyStmts, c8), "do_test")
        c10 == EndScopeUnlessList(c9, s.bodyStmts)
        c11 == SetCurrentBasicBlock(c10, "do_test")
        c12 == GetValue(s.testExpr, c11)
        c13 == IF ~uniformTest THEN RestoreContinuedLanes(c12) ELSE c12
    IN
    InOrder(<<c9,
              IF testValue = NoValue THEN c13
              ELSE EndLoop(SetCurrentBasicBlock(
                               LoopTestBranch(c13, uniformTest, testValue,
                                              "do_loop", "do_exit"),
                               "do_exit"))>>)

DoStmt_EmitCode(s, c) ==
    IF GetCurrentBasicBlock(c) = NoBlock THEN c
    ELSE IF s.testExpr.kind = "NoExpr" \/ GetType(s.testExpr) = NoType THEN c
    ELSE
    LET uniformTest == IsUniformType(GetType(s.testExpr))
        testValue == ValueOf(s.testExpr)
        c0 == IF uniformTest /\ s.doCoherentCheck
              THEN Warning(c, "uniform condition supplied to cdo") ELSE c
        c1 == CreateBasicBlock(c0, "do_loop")
        c2 == CreateBasicBlock(c1, "do_exit")
        c3 == CreateBasicBlock(c2, "do_test")
        c4 == StartLoop(c3, "do_exit", "do_test", uniformTest)
        c5 == SetCurrentBasicBlock(BranchInst(c4, "do_loop"), "do_loop")
        c6 == SetDebugPos(SetLoopMask(c5, GetInternalMask(c5)))
        c7 == StartScopeUnlessList(c6, s.bodyStmts)
        c8 == AddInstrumentationPoint(c7, "do loop body")
        \* the mask is checked for being all on
        a1 == CreateBasicBlock(c8, "do_all_on")
        a2 == CreateBasicBlock(a1, "do_mixed")
        a3 == BranchIfMaskAll(a2, "do_all_on", "do_mixed")
        a4 == SetInternalMask(SetCurrentBasicBlock(a3, "do_all_on"), LLVMMaskAllOn)
        \* read after SetInternalMask; nothing has set the function mask since c
        oldFunctionMask == GetFunctionMask(c)
        a5 == EmitCodeIf(s.bodyStmts, SetFunctionMask(a4, LLVMMaskAllOn))
        a6 == AssertCurrentBlock(a5, "do body, mask all on")
        a7 == BranchInst(SetFunctionMask(a6, oldFunctionMask), "do_test")
        a8 == EmitCodeIf(s.bodyStmts, SetCurrentBasicBlock(a7, "do_mixed"))
        a9 == BranchInst(AssertCurrentBlock(a8, "do body, mask mixed"), "do_test")
        \* the body, coherent or not
        c9 == IF s.doCoherentCheck /\ ~uniformTest
              THEN InOrder(<<a5, a8, a9>>)
              ELSE BranchInstIfLive(EmitCodeIf(s.bodyStmts, c8), "do_test")
        c10 == EndScopeUnlessList(c9, s.bodyStmts)
        c11 == SetCurrentBasicBlock(c10, "do_test")
        c12 == IF ~uniformTest THEN RestoreContinuedLanes(c11) ELSE c11
        c13 == GetValue(s.testExpr, c12)
    IN
    InOrder(<<c9,
              IF testValue = NoValue THEN c13
              ELSE EndLoop(SetCurrentBasicBlock(
                               LoopTestBranch(c13, uniformTest, testValue,
                                              "do_loop", "do_exit"),
                               "do_exit"))>>)

ForStmt_EmitCode(s, c) ==
    IF GetCurrentBasicBlock(c) = NoBlock THEN c
    ELSE
    LET c1 == CreateBasicBlock(c, "for_test")
        c2 == CreateBasicBlock(c1, "for_step")
        c3 == CreateBasicBlock(c2, "for_loop")
        c4 == CreateBasicBlock(c3, "for_exit")
        uniformTest == ForUniformTest(s)
        c5 == SetDebugPos(StartLoop(c4, "for_exit", "for_step", uniformTest))
        c6 == IF s.init.kind # "Null" THEN EmitCode(s.init, StartScope(c5)) ELSE c5
        c7 == SetCurrentBasicBlock(BranchInst(c6, "for_test"), "for_test")
        c8 == IF s.test.kind # "NoExpr" THEN GetValue(s.test, c7) ELSE c7
        ltest == IF s.test.kind # "NoExpr" THEN ValueOf(s.test)
                 ELSE IF uniformTest THEN <<"true">> ELSE <<"truevec">>
        c9 == LoopTestBranch(
                  IF uniformTest /\ s.doCoherentCheck
                  THEN Warning(c8, "uniform condition supplied to cfor") ELSE c8,
                  uniformTest, ltest, "for_loop", "for_exit")
        c10 == SetCurrentBasicBlock(c9, "for_loop")
        c11 == AddInstrumentationPoint(SetLoopMask(c10, GetInternalMask(c10)),
                                       "for loop body")
        c12 == StartScopeUnlessList(c11, s.stmts)
        \* the mask is checked for being all on
        a1 == CreateBasicBlock(c12, "for_all_on")
        a2 == CreateBasicBlock(a1, "for_mixed")
        a3 == BranchIfMaskAll(a2, "for_all_on", "for_mixed")
        a4 == SetInternalMask(SetCurrentBasicBlock(a3, "for_all_on"), LLVMMaskAllOn)
        \* read after SetInternalMask; nothing has set the function mask since c
        oldFunctionMask == GetFunctionMask(c)
        a5 == EmitCodeIf(s.stmts, SetFunctionMask(a4, LLVMMaskAllOn))
        a6 == AssertCurrentBlock(a5, "for body, mask all on")
        a7 == BranchInst(SetFunctionMask(a6, oldFunctionMask), "for_step")
        a8 == EmitCodeIf(s.stmts, SetCurrentBasicBlock(a7, "for_mixed"))
        a9 == BranchInst(a8, "for_step")
        \* the body, coherent or not
        c13 == IF s.doCoherentCheck /\ ~uniformTest
               THEN InOrder(<<a5, a8, a9>>)
               ELSE BranchInstIfLive(EmitCodeIf(s.stmts, c12), "for_step")
        c14 == EndScopeUnlessList(c13, s.stmts)
        c15 == RestoreContinuedLanes(SetCurrentBasicBlock(c14, "for_step"))
        c16 == EmitCodeIf(s.step, c15)
        c17 == SetCurrentBasicBlock(BranchInst(c16, "for_test"), "for_exit")
        c18 == IF s.init.kind # "Null" THEN EndScope(c17) ELSE c17
    IN
    IF s.test.kind # "NoExpr" /\ GetType(s.test) = NoType
    THEN Fault(c4, "ForStmt::EmitCode: test->GetType() is NULL")
    ELSE IF ltest = NoValue
    THEN EndLoop(EndScope(c8))
    ELSE InOrder(<<c6, c13, c16, EndLoop(c18)>>)

BreakStmt_EmitCode(s, c) ==
    IF GetCurrentBasicBlock(c) = NoBlock THEN c
    ELSE Break(SetDebugPos(c), s.doCoherenceCheck)

ContinueStmt_EmitCode(s, c) ==
    IF GetCurrentBasicBlock(c) = NoBlock THEN c
    ELSE Continue(SetDebugPos(c), s.doCoherenceCheck)

ReturnStmt_EmitCode(s, c) ==
    IF GetCurrentBasicBlock(c) = NoBlock THEN c
    ELSE CurrentLanesReturned(SetDebugPos(c), s.val, s.doCoherenceCheck)

\* the loop of StmtList::EmitCode over stmts[i], from index i on
RECURSIVE StmtListEmitFrom(_, _, _)
StmtListEmitFrom(ss, i, c) ==
    IF i > Len(ss) THEN c
    ELSE StmtListEmitFrom(ss, i + 1, EmitCodeIf(ss[i], c))

StmtList_EmitCode(s, c) ==
    IF GetCurrentBasicBlock(c) = NoBlock THEN c
    ELSE EndScope(StmtListEmitFrom(s.stmts, 1, SetDebugPos(StartScope(c))))

\* lEncodeType: the letter, "" for the NUL character
lEncodeType(t) ==
    LET letter == CASE t.base = "bool" -> <<"b", "B">>
                    [] t.base = "int32" -> <<"i", "I">>
                    [] t.base = "uint32" -> <<"u", "U">>
                    [] t.base = "float" -> <<"f", "F">>
                    [] t.base = "int64" -> <<"l", "L">>
                    [] t.base = "uint64" -> <<"v", "V">>
                    [] t.base = "double" -> <<"d", "D">>
                    [] OTHER -> <<"", "">>
    IN  IF ~IsAtomicType(t) \/ t.isConst THEN ""
        ELSE IF IsUniformType(t) THEN letter[1] ELSE letter[2]

DereferenceExpr(e) ==
    [id |-> e.id, kind |-> "DereferenceExpr",
     type |-> IF IsReferenceType(GetType(e)) THEN GetReferenceTarget(GetType(e))
              ELSE NoType,
     val |-> e.val, tc |-> "ok", cost |-> e.cost, exprs |-> <<e>>, ints |-> <<>>]

\* an argument that is dereferenced but never widened
PrintArgExprUnwidened(expr0) ==
    IF IsReferenceType(GetType(expr0)) THEN DereferenceExpr(expr0) ELSE expr0

\* the expression lProcessPrintArg evaluates: a reference is dereferenced,
\* an 8- or 16-bit integer is widened to int32
PrintArgExpr(expr0) ==
    LET expr1 == IF IsReferenceType(GetType(expr0)) THEN DereferenceExpr(expr0)
                 ELSE expr0
        type1 == GetType(expr1)
    IN  IF type1 # NoType /\ IsAtomicType(type1)
           /\ type1.base \in {"int8", "uint8", "int16", "uint16"}
        THEN TypeCastExpr(AtomicType("int32", type1.var), expr1)
        ELSE expr1

\* char t of lProcessPrintArg
PrintArgEncoding(expr0) == lEncodeType(GetAsNonConstType(GetType(PrintArgExpr(expr0))))

\* the llvm::Value lProcessPrintArg returns, NoValue for NULL
lProcessPrintArgValue(expr0) ==
    IF GetType(expr0) = NoType \/ GetType(PrintArgExpr(expr0)) = NoType THEN NoValue
    ELSE IF PrintArgEncoding(expr0) = "" THEN NoValue
    ELSE IF ValueOf(PrintArgExpr(expr0)) = NoValue THEN NoValue
    ELSE <<"print_arg", expr0.id>>

\* what lProcessPrintArg does to the context
lProcessPrintArg(expr0, c) ==
    IF GetType(expr0) = NoType \/ GetType(PrintArgExpr(expr0)) = NoType THEN c
    ELSE IF PrintArgEncoding(expr0) = ""
    THEN Error(c, "only atomic types are allowed in print statements")
    ELSE IF ValueOf(PrintArgExpr(expr0)) = NoValue
    THEN GetValue(PrintArgExpr(expr0), AllocaInst(c, "print_arg"))
    ELSE BitCastInst(StoreInst(GetValue(PrintArgExpr(expr0),
                                        AllocaInst(c, "print_arg")),
                               ValueOf(PrintArgExpr(expr0)),
                               <<"print_arg", expr0.id>>),
                     <<"print_arg", expr0.id>>)

\* the argument loop of PrintStmt::EmitCode, from argument i (1-based) on
RECURSIVE PrintArgsFrom(_, _, _, _)
PrintArgsFrom(exprs, i, c, argPtrArray) ==
    IF i > Len(exprs) THEN c
    ELSE IF exprs[i].kind = "NoExpr" THEN c
    ELSE IF lProcessPrintArgValue(exprs[i]) = NoValue
    THEN lProcessPrintArg(exprs[i], c)
    ELSE PrintArgsFrom(exprs, i + 1,
                       StoreInst(GetElementPtrInst(lProcessPrintArg(exprs[i], c),
                                                   argPtrArray, i - 1),
                                 lProcessPrintArgValue(exprs[i]),
                                 ElementPtr(argPtrArray, i - 1)),
                       argPtrArray)

\* the loop ran to its end: no argument made EmitCode return
PrintArgsDone(exprs) ==
    \A i \in 1..Len(exprs) :
        exprs[i].kind # "NoExpr" /\ lProcessPrintArgValue(exprs[i]) # NoValue

\* std::string argTypes after the loop
PrintArgTypes(exprs) == [i \in 1..Len(exprs) |-> PrintArgEncoding(exprs[i])]

\* the arguments of a print statement: the elements of an ExprList, or the
\* one expression
PrintValues(s) ==
    IF s.values.kind = "NoExpr" THEN <<>>
    ELSE IF s.values.kind = "ExprList" THEN s.values.exprs
    ELSE <<s.values>>

\* the call of __do_print that ends PrintStmt::EmitCode
PrintCall(s, c) ==
    CallInst(LaneMask(GetStringPtr(GetStringPtr(c, <<s.format>>),
                                   PrintArgTypes(PrintValues(s))),
                      GetFullMask(c)),
             "__do_print",
             <<s.format>> \o <<"|">> \o PrintArgTypes(PrintValues(s)) \o <<"|">>
                 \o (IF s.values.kind = "NoExpr" THEN <<"null">>
                     ELSE <<"print_arg_ptrs">>))

\* PrintStmt::EmitCode does not look at the current basic block
PrintStmt_EmitCode(s, c) ==
    IF s.values.kind = "NoExpr" THEN PrintCall(s, SetDebugPos(c))
    ELSE IF ~PrintArgsDone(PrintValues(s))
    THEN PrintArgsFrom(PrintValues(s), 1,
                       BitCastInst(AllocaInst(SetDebugPos(c), "print_arg_ptrs"),
                                   <<"print_arg_ptrs">>),
                       <<"print_arg_ptrs">>)
    ELSE PrintCall(s, PrintArgsFrom(PrintValues(s), 1,
                       BitCastInst(AllocaInst(SetDebugPos(c), "print_arg_ptrs"),
                                   <<"print_arg_ptrs">>),
                       <<"print_arg_ptrs">>))

\* AssertStmt::EmitCode does not look at the current basic block; a NULL
\* from GetValue() is handed to the call as it is
AssertStmt_EmitCode(s, c) ==
    IF s.expr.kind = "NoExpr" THEN c
    ELSE IF GetType(s.expr) = NoType THEN c
    ELSE CallInst(GetValue(s.expr, GetStringPtr(c, <<s.message>>)),
                  IF IsUniformType(GetType(s.expr)) THEN "__do_assert_uniform"
                  ELSE "__do_assert_varying",
                  StringPtr(<<s.message>>)
                      \o (IF ValueOf(s.expr) = NoValue THEN <<"NULL">>
                          ELSE ValueOf(s.expr))
                      \o GetFullMask(c))

\* the entry of a virtual call stmt->EmitCode(ctx)
EnterCall(c) == [c EXCEPT !.nest = @ + 1]

\* the return of the call entered at c: it is noted in calls with the
\* operations it issued (trace positions from+1 .. to), with whether there
\* was a current basic block at entry (live) and at return (liveOut), with
\* whether the compiler was alive at return (ok), and with the statement,
\* the masks and the current block at entry and return
LeaveCall(s, c, r) ==
    [r EXCEPT !.nest = c.nest,
              !.calls = Append(@, [kind |-> s.kind, nest |-> c.nest,
                                   ok |-> r.fault = <<>>,
                                   live |-> GetCurrentBasicBlock(c) # NoBlock,
                                   liveOut |-> GetCurrentBasicBlock(r) # NoBlock,
                                   s |-> s, mask |-> c.internalMask,
                                   fmask |-> c.functionMask,
                                   maskOut |-> r.internalMask,
                                   fmaskOut |-> r.functionMask,
                                   block |-> GetCurrentBasicBlock(c),
                                   blockOut |-> GetCurrentBasicBlock(r),
                                   from |-> Len(c.trace), to |-> Len(r.trace)])]

\* the virtual call stmt->EmitCode(ctx).  Once the compiler has died on a
\* failed assertion or a null dereference (c.fault) no further call is made.
EmitCode(s, c) ==
    IF c.fault # <<>> THEN c
    ELSE LeaveCall(s, c,
        CASE s.kind = "ExprStmt" -> ExprStmt_EmitCode(s, EnterCall(c))
          [] s.kind = "DeclStmt" -> DeclStmt_EmitCode(s, EnterCall(c))
          [] s.kind = "IfStmt" -> IfStmt_EmitCode(s, EnterCall(c))
          [] s.kind = "DoStmt" -> DoStmt_EmitCode(s, EnterCall(c))
          [] s.kind = "ForStmt" -> ForStmt_EmitCode(s, EnterCall(c))
          [] s.kind = "BreakStmt" -> BreakStmt_EmitCode(s, EnterCall(c))
          [] s.kind = "ContinueStmt" -> ContinueStmt_EmitCode(s, EnterCall(c))
          [] s.kind = "ReturnStmt" -> ReturnStmt_EmitCode(s, EnterCall(c))
          [] s.kind = "StmtList" -> StmtList_EmitCode(s, EnterCall(c))
          [] s.kind = "PrintStmt" -> PrintStmt_EmitCode(s, EnterCall(c))
          [] s.kind = "AssertStmt" -> AssertStmt_EmitCode(s, EnterCall(c))
          [] OTHER -> Fault(c, "EmitCode on NULL"))

---------------------------------------------------------------------------
(* The expressions and statements the parser hands over.  Expressions come *)
(* from a catalogue that covers the behaviours stmt.cpp distinguishes:     *)
(* uniform / varying, GetValue() NULL, GetType() NULL, TypeCheck() NULL,   *)
(* a type that does not convert to bool.                                   *)

symA == MkExpr("a", "SymbolExpr", UniformInt32, TRUE, "ok", 0, <<>>)
symB == MkExpr("b", "SymbolExpr", VaryingInt32, TRUE, "ok", 0, <<>>)

\* b = a
eAssign == MkExpr("b=a", "AssignExpr", VaryingInt32, TRUE, "ok", 1, <<symB, symA>>)
\* a < a, a uniform test
eU == MkExpr("a<a", "BinaryExpr", UniformInt32, TRUE, "ok", 1, <<symA, symA>>)
\* b < a, a varying test
eV == MkExpr("b<a", "BinaryExpr", VaryingInt32, TRUE, "ok", 1, <<symB, symA>>)
\* a uniform test whose GetValue() returns NULL
eUnoVal == MkExpr("a<?", "BinaryExpr", UniformInt32, FALSE, "ok", 1, <<symA, symA>>)
\* an expression whose GetType() returns NULL
eNoType == MkExpr("?", "BinaryExpr", NoType, FALSE, "ok", 1, <<symA, symA>>)
\* an expression of struct type
eStruct == MkExpr("s", "SymbolExpr", StructType("varying", <<VaryingInt32>>),
                  TRUE, "ok", 0, <<>>)
\* an expression whose TypeCheck() returns NULL
eTcNull == MkExpr("!", "BinaryExpr", VaryingInt32, FALSE, "null", 1, <<symB, symA>>)

TestExprs == {eU, eV, eUnoVal, eNoType, eStruct, eTcNull}

\* uniform int x = a;
DeclX ==
    DeclStmt(<<[sym |-> [name |-> "x", type |-> UniformInt32, storageClass |-> "none"],
                init |-> symA]>>)

\* if (b < a) break;
IfBreak == IfStmt(eV, BreakStmt(FALSE), NULL, FALSE)

LeafStmts ==
    {ExprStmt(eAssign), DeclX, BreakStmt(FALSE), ContinueStmt(FALSE),
     ReturnStmt(NoExpr, FALSE), PrintStmt("x", NoExpr), AssertStmt("m", eU),
     IfBreak}

\* the nesting bound on the statements built
MaxDepth == 2

Max(a, b) == IF a >= b THEN a ELSE b

RECURSIVE Depth(_)
RECURSIVE MaxDepthOf(_)
MaxDepthOf(ss) == IF ss = <<>> THEN 0 ELSE Max(Depth(Head(ss)), MaxDepthOf(Tail(ss)))

\* constructor applications above the catalogue statements
Depth(s) ==
    IF s = NULL \/ s \in LeafStmts THEN 0
    ELSE CASE s.kind = "IfStmt" -> 1 + Max(Depth(s.trueStmts), Depth(s.falseStmts))
           [] s.kind = "DoStmt" -> 1 + Depth(s.bodyStmts)
           [] s.kind = "ForStmt" -> 1 + Max(Depth(s.stmts), Max(Depth(s.init), Depth(s.step)))
           [] s.kind = "StmtList" -> 1 + MaxDepthOf(s.stmts)
           [] OTHER -> 0

CanWrap == phase = "parse" /\ Depth(stmt) < MaxDepth

---------------------------------------------------------------------------
(* The compilation of one function body.                                   *)

Init ==
    /\ g \in [disableUniformControlFlow : BOOLEAN,
              disableCoherentControlFlow : {FALSE}]
    /\ orig = NULL
    /\ stmt = NULL
    /\ phase = "parse"
    /\ diag = <<>>
    /\ ctx = NewContext(LLVMMaskAllOn)
    /\ scan = FALSE

\* the parser reduces a simple statement
ParseSimple(l) ==
    /\ phase = "parse"
    /\ stmt = NULL
    /\ stmt' = l
    /\ UNCHANGED <<g, orig, phase, diag, ctx, scan>>

\* if / cif (t) stmt [else fs]
ParseIf(t, fs, cc) ==
    /\ CanWrap
    /\ stmt' = IfStmt(t, stmt, fs, cc)
    /\ UNCHANGED <<g, orig, phase, diag, ctx, scan>>

\* do / cdo stmt while (t)
ParseDo(t, cc) ==
    /\ CanWrap
    /\ stmt' = DoStmt(t, stmt, cc)
    /\ UNCHANGED <<g, orig, phase, diag, ctx, scan>>

\* for / cfor (i; t; st) stmt
ParseFor(i, t, st, cc) ==
    /\ CanWrap
    /\ stmt' = ForStmt(i, t, st, stmt, cc)
    /\ UNCHANGED <<g, orig, phase, diag, ctx, scan>>

\* { before stmt after }
ParseList(before, after) ==
    /\ CanWrap
    /\ stmt' = StmtList(before \o <<stmt>> \o after)
    /\ UNCHANGED <<g, orig, phase, diag, ctx, scan>>

\* the driver type-checks the function body
RunTypeCheck ==
    /\ phase = "parse"
    /\ stmt # NULL
    /\ orig' = stmt
    /\ stmt' = TypeCheck(stmt).s
    /\ diag' = diag \o TypeCheck(stmt).d
    /\ phase' = "checked"
    /\ UNCHANGED <<g, ctx, scan>>

\* the driver lowers the body that type-check left, with the function mask
\* either statically all on or unknown
RunEmitCode(fnMask) ==
    /\ phase = "checked"
    /\ stmt # NULL
    /\ ctx' = EmitCode(stmt, NewContext(fnMask))
    /\ diag' = diag \o ctx'.diag
    /\ phase' = "emitted"
    /\ UNCHANGED <<g, orig, stmt, scan>>

FunctionMasks == {LLVMMaskAllOn, <<"mask">>}

IfShapes ==
    ({eU, eV, eUnoVal, eNoType, eStruct, eTcNull} \X {NULL} \X {FALSE})
    \cup ({eU, eV} \X {ExprStmt(eAssign)} \X {FALSE})
    \cup ({eV} \X {NULL} \X {TRUE})

DoShapes == (TestExprs \X {FALSE}) \cup ({eV} \X {TRUE})

ForShapes ==
    ({NULL} \X (TestExprs \cup {NoExpr}) \X {NULL} \X {FALSE})
    \cup ({ExprStmt(eAssign)} \X {eU, eV, eUnoVal} \X {ExprStmt(eAssign)} \X {FALSE})
    \cup ({NULL} \X {eV} \X {NULL} \X {TRUE})

ListShapes ==
    {<< <<>>, <<>> >>, << <<>>, <<PrintStmt("x", NoExpr)>> >>,
     << <<ExprStmt(eAssign)>>, <<>> >>}

Next ==
    \/ \E l \in LeafStmts : ParseSimple(l)
    \/ \E x \in IfShapes : ParseIf(x[1], x[2], x[3])
    \/ \E x \in DoShapes : ParseDo(x[1], x[2])
    \/ \E x \in ForShapes : ParseFor(x[1], x[2], x[3], x[4])
    \/ \E x \in ListShapes : ParseList(x[1], x[2])
    \/ RunTypeCheck
    \/ \E m \in FunctionMasks : RunEmitCode(m)

Spec == Init /\ [][Next]_vars

---------------------------------------------------------------------------
(* Reading the emitted operations.                                         *)

\* the operations of tr among its first n that are called name
Count(tr, name, n) == Cardinality({i \in 1..n : tr[i].op = name})

IsOpen(o) == o.op \in {"StartLoop", "StartUniformIf", "StartVaryingIf"}
IsClose(o) == o.op \in {"EndLoop", "EndIf"}
Opens(o) == IF o.op = "StartLoop" THEN "Loop" ELSE "If"
Closes(o) == IF o.op = "EndLoop" THEN "Loop" ELSE "If"

IsBracket(o) == IsOpen(o) \/ IsClose(o)

\* the loop and if brackets of tr, in the order they were issued
BracketsOf(tr) == SelectSeq(tr, IsBracket)

\* how many brackets are open after each of the brackets b
OpenAfter(b) ==
    [n \in 0..Len(b) |->
        Cardinality({i \in 1..n : IsOpen(b[i])}) - Cardinality({i \in 1..n : IsClose(b[i])})]

\* bracket n of b closes bracket m: as many are open after n as before m,
\* and more in between
ClosedBy(b, open, m, n) ==
    /\ m < n /\ IsOpen(b[m]) /\ IsClose(b[n])
    /\ open[n] = open[m - 1]
    /\ \A j \in m..(n - 1) : open[j] > open[m - 1]

\* every closing bracket of the given kind closes an opening bracket of that
\* kind, and every opening bracket of the kind is closed by one of that kind
Matched(tr, kind) ==
    LET b == BracketsOf(tr)
        open == OpenAfter(b)
    IN  /\ \A n \in 1..Len(b) :
               IsClose(b[n]) /\ Closes(b[n]) = kind
                   => \E m \in 1..(n - 1) : ClosedBy(b, open, m, n) /\ Opens(b[m]) = kind
        /\ \A m \in 1..Len(b) :
               IsOpen(b[m]) /\ Opens(b[m]) = kind
                   => \E n \in (m + 1)..Len(b) :
                          ClosedBy(b, open, m, n) /\ Closes(b[n]) = kind

Emitted == phase = "emitted"

---------------------------------------------------------------------------
(* C1 - C4: what EmitCode does to the emit context.                        *)

\* C1: EmitCode of any statement, called while the emit context has no
\* current basic block, performs no emit-context operation at all.
C1_NoBlockNoOperation ==
    \A i \in 1..Len(ctx.calls) :
        ~ctx.calls[i].live => ctx.calls[i].to = ctx.calls[i].from

\* C2: over EmitCode of a statement tree StartScope and EndScope are
\* balanced: never more EndScope than StartScope so far, and as many of
\* both when EmitCode has returned.
C2_ScopesBalanced ==
    Emitted =>
        /\ \A n \in 1..Len(ctx.trace) :
               Count(ctx.trace, "EndScope", n) <= Count(ctx.trace, "StartScope", n)
        /\ Count(ctx.trace, "EndScope", Len(ctx.trace))
               = Count(ctx.trace, "StartScope", Len(ctx.trace))

\* C3: every StartLoop is matched by exactly one EndLoop before EmitCode
\* returns, no EndLoop comes without an open StartLoop, and the loop
\* brackets nest properly.
C3_LoopsMatched == Emitted => Matched(ctx.trace, "Loop")

\* C4: every StartUniformIf / StartVaryingIf is matched by exactly one EndIf
\* before EmitCode returns, no EndIf closes anything but an open if, and
\* the if brackets nest properly with those of the statements inside.
C4_IfsMatched == Emitted => Matched(ctx.trace, "If")

---------------------------------------------------------------------------
(* Reading statement trees.                                                *)

\* the statements directly under s, absent ones included
ChildrenOf(s) ==
    CASE s.kind = "IfStmt" -> <<s.trueStmts, s.falseStmts>>
      [] s.kind = "DoStmt" -> <<s.bodyStmts>>
      [] s.kind = "ForStmt" -> <<s.init, s.step, s.stmts>>
      [] s.kind = "StmtList" -> s.stmts
      [] OTHER -> <<>>

\* every statement of the tree s
RECURSIVE StmtsOf(_)
StmtsOf(s) ==
    IF s.kind = "Null" THEN {}
    ELSE {s} \cup UNION {StmtsOf(ChildrenOf(s)[i]) : i \in 1..Len(ChildrenOf(s))}

HasTest(s) == s.kind \in {"IfStmt", "DoStmt", "ForStmt", "AssertStmt"}

TestOf(s) ==
    CASE s.kind = "DoStmt" -> s.testExpr
      [] s.kind = "AssertStmt" -> s.expr
      [] OTHER -> s.test

IsLoop(s) == s.kind \in {"DoStmt", "ForStmt"}

IsVaryingIf(s) ==
    /\ s.kind = "IfStmt"
    /\ s.test.kind # "NoExpr"
    /\ GetType(s.test) # NoType
    /\ IsVaryingType(GetType(s.test))

\* the positions of the tree s: a position is the sequence of child
\* indexes that leads to it from s
RECURSIVE PathsOf(_)
PathsOf(s) ==
    {<<>>} \cup UNION {{<<i>> \o p : p \in PathsOf(ChildrenOf(s)[i])} :
                          i \in 1..Len(ChildrenOf(s))}

\* the statement at position p of s
RECURSIVE At(_, _)
At(s, p) == IF p = <<>> THEN s ELSE At(ChildrenOf(s)[Head(p)], Tail(p))

\* the statements of s that position p lies inside, s itself included
AboveOf(s, p) == {At(s, SubSeq(p, 1, k)) : k \in 0..(Len(p) - 1)}

\* position p of s holds a break or continue that is inside no loop of s
\* and inside a branch of an if of s with a varying test
IsVaryingJump(s, p) ==
    /\ At(s, p).kind \in {"BreakStmt", "ContinueStmt"}
    /\ \A x \in AboveOf(s, p) : ~IsLoop(x)
    /\ \E x \in AboveOf(s, p) : IsVaryingIf(x)

HasVaryingJump(s) == \E p \in PathsOf(s) : IsVaryingJump(s, p)

---------------------------------------------------------------------------
(* C5, C7, C8, C10: type-check and the lowering it prepares.               *)

TypeChecked == phase \in {"checked", "emitted"} /\ stmt # NULL

BoolTypes == {UniformBool, VaryingBool}

\* C5 as stated: after TypeCheck returned a statement tree, the test of
\* every If, Do, For and Assert statement left in it has type uniform bool or
\* varying bool.
C5_TestsAreBool ==
    TypeChecked =>
        \A x \in StmtsOf(stmt) :
            HasTest(x) /\ TestOf(x).kind # "NoExpr"
                => GetType(TestOf(x)) \in BoolTypes

\* C5: after TypeCheck returned a statement tree, every test of an If, Do,
\* For or Assert statement left in it whose type is known has type uniform
\* bool or varying bool.
C5_TypedTestsAreBool ==
    TypeChecked =>
        \A x \in StmtsOf(stmt) :
            HasTest(x) /\ TestOf(x).kind # "NoExpr" /\ GetType(TestOf(x)) # NoType
                => GetType(TestOf(x)) \in BoolTypes

\* a nested statement whose int32 test was cast to bool
C5_Witness ==
    /\ TypeChecked
    /\ \E x \in StmtsOf(stmt) \ {stmt} :
           /\ HasTest(x)
           /\ TestOf(x).kind = "TypeCastExpr"
           /\ GetType(TestOf(x).exprs[1]) = UniformInt32
           /\ GetType(TestOf(x)) = UniformBool

\* the calls EmitCode made for the statements directly under the body, and
\* the operations the body's own EmitCode issued
IsChildCall(k) == k.nest = 1
IsOwnOp(o) == o.nest = 1
ChildCalls == SelectSeq(ctx.calls, IsChildCall)
OwnOps == SelectSeq(ctx.trace, IsOwnOp)
OwnOpNames == {OwnOps[i].op : i \in 1..Len(OwnOps)}
OwnBlocks == {OwnOps[i].v[1] : i \in {k \in 1..Len(OwnOps) : OwnOps[k].op = "CreateBasicBlock"}}

IsPresent(s) == s.kind # "Null"
KindsOf(ss) == [i \in 1..Len(ss) |-> ss[i].kind]
PresentKinds(ss) == KindsOf(SelectSeq(ss, IsPresent))
IsPrefix(a, b) == Len(a) <= Len(b) /\ a = SubSeq(b, 1, Len(a))

\* C7: StmtList::TypeCheck returns the list itself whatever its statements
\* do: each statement is replaced, at its position, by what its own
\* TypeCheck returns (nothing when it fails); EmitCode then calls EmitCode on
\* the statements that are left, in order, and on all of them unless the
\* compiler dies on the way.
C7_ListKeepsSiblings ==
    /\ phase # "parse" /\ orig.kind = "StmtList"
           => /\ stmt.kind = "StmtList"
              /\ Len(stmt.stmts) = Len(orig.stmts)
              /\ \A i \in 1..Len(orig.stmts) :
                     stmt.stmts[i] = SubCheck(orig.stmts[i]).s
    /\ Emitted /\ stmt.kind = "StmtList"
           => /\ IsPrefix(KindsOf(ChildCalls), PresentKinds(stmt.stmts))
              /\ ctx.fault = <<>> => KindsOf(ChildCalls) = PresentKinds(stmt.stmts)

\* a list whose first statement failed TypeCheck and whose later statement
\* was emitted
C7_Witness ==
    /\ Emitted /\ orig.kind = "StmtList" /\ stmt.kind = "StmtList"
    /\ Len(orig.stmts) = 2
    /\ orig.stmts[1] # NULL /\ stmt.stmts[1] = NULL
    /\ stmt.stmts[2] # NULL
    /\ KindsOf(ChildCalls) = <<stmt.stmts[2].kind>>
    /\ \E i \in 1..Len(diag) : diag[i].sev = "error"

LoopBody(s) == IF s.kind = "DoStmt" THEN s.bodyStmts ELSE s.stmts

\* the three conditions of C8, read off the loop as the parser built it
C8_UniformExpected ==
    /\ IsUniformType(GetType(TestOf(orig)))
    /\ ~g.disableUniformControlFlow
    /\ ~HasVaryingJump(LoopBody(orig))

C8_TestValued == ValueOf(TestOf(stmt)) # NoValue

\* C8: a do/for loop whose test has a type is emitted as a uniform loop
\* (StartLoop says uniform, a conditional branch on the test's value, no
\* update of the internal mask by the test) iff the test's type before
\* type-check is uniform, disableUniformControlFlow is off and no break or
\* continue of the body is under a varying if outside nested loops;
\* otherwise as a varying loop (StartLoop says varying, the mask is
\* and-ed with the test, a branch on any(mask)).
C8_UniformLoopIff ==
    /\ Emitted /\ IsLoop(stmt)
    /\ TestOf(stmt).kind # "NoExpr" /\ GetType(TestOf(stmt)) # NoType
    => /\ \E i \in 1..Len(OwnOps) : OwnOps[i].op = "StartLoop"
       /\ \A i \in 1..Len(OwnOps) :
              OwnOps[i].op = "StartLoop"
                  => OwnOps[i].v = <<IF C8_UniformExpected THEN "uniform" ELSE "varying">>
       /\ C8_UniformExpected
              => /\ OwnOpNames \cap {"SetInternalMaskAnd", "BranchIfMaskAny"} = {}
                 /\ C8_TestValued
                        => \E i \in 1..Len(OwnOps) :
                               /\ OwnOps[i].op = "CondBranchInst"
                               /\ OwnOps[i].v = ValueOf(TestOf(stmt))
       /\ ~C8_UniformExpected
              => /\ "CondBranchInst" \notin OwnOpNames
                 /\ C8_TestValued
                        => {"SetInternalMaskAnd", "BranchIfMaskAny"} \subseteq OwnOpNames

\* do { if (b < a) break; } while (a < a): a uniform test, a varying loop
C8_Witness ==
    /\ Emitted
    /\ ~g.disableUniformControlFlow
    /\ orig = DoStmt(eU, IfBreak, FALSE)
    /\ \E i \in 1..Len(OwnOps) :
           OwnOps[i].op = "StartLoop" /\ OwnOps[i].v = <<"varying">>
    /\ "BranchIfMaskAny" \in OwnOpNames

\* what the operations of a varying if show of its lowering: the body of
\* the mask-all-on path, the body of the mask-mixed path, the runtime check
\* of the full mask, the predicated form
AllOnBody ==
    {"cif_test_all", "cif_test_none_check", "cif_test_none", "cif_test_mixed"}
        \subseteq OwnBlocks
MixedBody == "safe_if_after_true" \in OwnBlocks
RuntimeAllCheck ==
    /\ {"cif_mask_all", "cif_mask_mixed"} \subseteq OwnBlocks
    /\ \E i \in 1..Len(OwnOps) :
           /\ OwnOps[i].op = "CondBranchInst"
           /\ OwnOps[i].v = AllValue(<<"and">> \o LLVMMaskAllOn \o ctx.functionMask)
Predicated ==
    /\ "StartVaryingIf" \in OwnOpNames
    /\ OwnBlocks = {}
    /\ OwnOpNames \cap {"Any", "All", "BranchIfMaskAny", "BranchIfMaskAll",
                        "CondBranchInst", "BranchInst"} = {}
LoweringSeen == <<AllOnBody, MixedBody, RuntimeAllCheck, Predicated>>

LoweringOf(path) ==
    CASE path = "allon" -> <<TRUE, FALSE, FALSE, FALSE>>
      [] path = "coherent" -> <<TRUE, TRUE, TRUE, FALSE>>
      [] path = "predicated" -> <<FALSE, FALSE, FALSE, TRUE>>
      [] path = "mixed" -> <<FALSE, TRUE, FALSE, FALSE>>
      [] OTHER -> <<FALSE, FALSE, FALSE, FALSE>>

\* the top-level statement is an if with a varying test that has a value
VaryingIfEmitted ==
    /\ Emitted /\ IsVaryingIf(stmt)
    /\ ValueOf(stmt.test) # NoValue

\* the priority of C10; the function mask is as at entry once EmitCode has
\* returned, and the internal mask at entry is all on
C10_Priority ==
    IF ctx.functionMask = LLVMMaskAllOn THEN "allon"
    ELSE IF stmt.doAllCheck THEN "coherent"
    ELSE IF /\ lSafeToRunWithAllLanesOff(stmt.trueStmts)
            /\ lSafeToRunWithAllLanesOff(stmt.falseStmts)
            /\ EstimateCost(stmt.trueStmts) + EstimateCost(stmt.falseStmts)
                   < PREDICATE_SAFE_IF_STATEMENT_COST
    THEN "predicated"
    ELSE "mixed"

\* in the predicated form both branches are emitted, each once
C10_PredicatedRunsBoth ==
    Predicated /\ ctx.fault = <<>>
        => KindsOf(ChildCalls) = PresentKinds(<<stmt.trueStmts, stmt.falseStmts>>)

\* C10 as stated: emitVaryingIf chooses its lowering by the priority
\* all-on, coherent check, predicated, mask-mixed.
C10_LoweringByPriority ==
    VaryingIfEmitted
        => /\ LoweringSeen = LoweringOf(C10_Priority)
           /\ C10_PredicatedRunsBoth

\* C10: emitVaryingIf chooses its lowering by the priority all-on, coherent
\* check, predicated, mask-mixed, except that with the mask not known to be
\* all on, no coherent check and neither branch present it emits nothing.
\* The predicated form has no branch and emits both branches.
C10_LoweringByPriorityUnlessEmpty ==
    VaryingIfEmitted
        => /\ LoweringSeen =
                  LoweringOf(IF /\ C10_Priority \in {"predicated", "mixed"}
                                /\ stmt.trueStmts = NULL /\ stmt.falseStmts = NULL
                             THEN "none" ELSE C10_Priority)
           /\ C10_PredicatedRunsBoth

\* a varying if with both branches, lowered in the predicated form
C10_Witness ==
    /\ VaryingIfEmitted
    /\ ctx.functionMask # LLVMMaskAllOn
    /\ stmt.trueStmts # NULL /\ stmt.falseStmts # NULL
    /\ Predicated
    /\ Len(ChildCalls) = 2

---------------------------------------------------------------------------
(* C11: asserts and the predicated form.                                   *)

HasAssert(s) == \E x \in StmtsOf(s) : x.kind = "AssertStmt"

\* the if at the top is lowered with the mask not known to be all on and
\* without the coherent check
PlainVaryingIfEmitted ==
    /\ VaryingIfEmitted
    /\ ctx.functionMask # LLVMMaskAllOn
    /\ ~stmt.doAllCheck

\* the branch statement whose EmitCode call is ChildCalls[i] was reached
\* after a conditional branch of the if on any(full mask)
GatedByAny(i) ==
    \E j \in 1..ChildCalls[i].from :
        /\ ctx.trace[j].nest = 1
        /\ ctx.trace[j].op = "CondBranchInst"
        /\ Len(ctx.trace[j].v) >= 2
        /\ SubSeq(ctx.trace[j].v, 1, 2) = <<"any", "and">>

\* C11: the safety predicate is false for every statement that contains an
\* assert at any depth, and an if with a varying test whose branches
\* contain an assert, lowered neither all-on nor with the coherent check,
\* is never in the predicated form: its branches are emitted behind a
\* conditional branch on any(full mask).
C11_AssertNeverPredicated ==
    /\ \A s \in StmtsOf(stmt) \cup StmtsOf(orig) :
           HasAssert(s) => ~lSafeToRunWithAllLanesOff(s)
    /\ PlainVaryingIfEmitted /\ (HasAssert(stmt.trueStmts) \/ HasAssert(stmt.falseStmts))
           => /\ ~Predicated
              /\ \A i \in 1..Len(ChildCalls) : GatedByAny(i)

\* if (b < a) assert(a < a); with an unknown function mask: the assert is
\* emitted, behind the branch on any(full mask)
C11_Witness ==
    /\ PlainVaryingIfEmitted
    /\ stmt.trueStmts.kind = "AssertStmt" /\ stmt.falseStmts = NULL
    /\ ctx.fault = <<>>
    /\ Len(ChildCalls) = 1 /\ ChildCalls[1].kind = "AssertStmt"
    /\ GatedByAny(1)
    /\ MixedBody

---------------------------------------------------------------------------
(* The scan for break and continue on its own, over statements built up    *)
(* to MaxScanDepth constructors deep.                                      *)

MaxScanDepth == 3

RECURSIVE Height(_)
RECURSIVE MaxHeightOf(_)
MaxHeightOf(ss) == IF ss = <<>> THEN 0 ELSE Max(Height(Head(ss)), MaxHeightOf(Tail(ss)))
Height(s) == IF ChildrenOf(s) = <<>> THEN 0 ELSE 1 + MaxHeightOf(ChildrenOf(s))

CanGrow == phase = "scan" /\ Height(stmt) < MaxScanDepth

InitScan ==
    /\ g \in [disableUniformControlFlow : {FALSE}, disableCoherentControlFlow : {FALSE}]
    /\ orig = NULL
    /\ stmt = NULL
    /\ phase = "scan"
    /\ diag = <<>>
    /\ ctx = NewContext(LLVMMaskAllOn)
    /\ scan = FALSE

ScanLeaf(l) ==
    /\ phase = "scan"
    /\ stmt = NULL
    /\ stmt' = l
    /\ UNCHANGED <<g, orig, phase, diag, ctx, scan>>

\* if (t) stmt else other, or if (t) other else stmt
ScanIf(t, other, inElse) ==
    /\ CanGrow
    /\ stmt' = IF inElse THEN IfStmt(t, other, stmt, FALSE) ELSE IfStmt(t, stmt, other, FALSE)
    /\ UNCHANGED <<g, orig, phase, diag, ctx, scan>>

ScanLoop(isFor) ==
    /\ CanGrow
    /\ stmt' = IF isFor THEN ForStmt(NULL, eU, NULL, stmt, FALSE) ELSE DoStmt(eU, stmt, FALSE)
    /\ UNCHANGED <<g, orig, phase, diag, ctx, scan>>

ScanList(before, after) ==
    /\ CanGrow
    /\ stmt' = StmtList(before \o <<stmt>> \o after)
    /\ UNCHANGED <<g, orig, phase, diag, ctx, scan>>

\* lHasVaryingBreakOrContinue(stmt), as DoStmt::TypeCheck and
\* ForStmt::TypeCheck call it on a loop body
RunScan ==
    /\ phase = "scan"
    /\ scan' = lHasVaryingBreakOrContinue(stmt, FALSE)
    /\ phase' = "scanned"
    /\ UNCHANGED <<g, orig, stmt, diag, ctx>>

ScanLeaves == {BreakStmt(FALSE), ContinueStmt(FALSE), ExprStmt(eAssign)}

ScanIfShapes == {eU, eV, eNoType} \X {NULL, BreakStmt(FALSE)} \X BOOLEAN

ScanListShapes ==
    {<< <<>>, <<>> >>, << <<>>, <<BreakStmt(FALSE)>> >>, << <<NULL>>, <<>> >>}

NextScan ==
    \/ \E l \in ScanLeaves : ScanLeaf(l)
    \/ \E x \in ScanIfShapes : ScanIf(x[1], x[2], x[3])
    \/ \E f \in BOOLEAN : ScanLoop(f)
    \/ \E x \in ScanListShapes : ScanList(x[1], x[2])
    \/ RunScan

SpecScan == InitScan /\ [][NextScan]_vars

\* C9: lHasVaryingBreakOrContinue(s) is true iff s holds a break or
\* continue that is inside no do/for loop of s and inside a branch of an if
\* of s whose test type is varying.
C9_ScanIsVaryingJump ==
    phase = "scanned" => (scan <=> HasVaryingJump(stmt))

\* { if (b < a) b = a; break; }: the break after the varying if does not
\* count
C9_Witness ==
    /\ phase = "scanned"
    /\ ~scan
    /\ stmt.kind = "StmtList" /\ Len(stmt.stmts) = 2
    /\ IsVaryingIf(stmt.stmts[1])
    /\ stmt.stmts[1].trueStmts.kind = "ExprStmt"
    /\ stmt.stmts[2].kind = "BreakStmt"

---------------------------------------------------------------------------
(* Declarations, print statements and tested statements compiled on their  *)
(* own, over a catalogue of variable types and initializers.               *)

refA == MkExpr("&a", "ReferenceExpr", ReferenceType(UniformInt32), TRUE, "ok", 0, <<symA>>)
const1 == ConstExpr("1", UniformInt32, <<1>>)
small8 == MkExpr("c", "SymbolExpr", AtomicType("int8", "uniform"), TRUE, "ok", 0, <<>>)

listA == ExprList("{a}", <<symA>>)
listAA == ExprList("{a,a}", <<symA, symA>>)

DeclTypes ==
    {UniformInt32, VaryingInt32, EnumType("uniform"), ReferenceType(UniformInt32),
     ArrayType(UniformInt32, 2), ArrayType(UniformInt32, 0),
     ArrayType(ArrayType(UniformInt32, 2), 2), ArrayType(ArrayType(UniformInt32, 2), 0),
     StructType("uniform", <<UniformInt32, UniformInt32>>)}

DeclInits ==
    {NoExpr, symA, symB, const1, refA, eStruct, eTcNull, listA, listAA,
     ExprList("{a,a,a}", <<symA, symA, symA>>),
     ExprList("{a,s}", <<symA, eStruct>>),
     ExprList("{a,{a}}", <<symA, listA>>),
     ExprList("{{a,a},{a,a}}", <<listAA, listAA>>),
     ExprList("{{a},{a,a}}", <<listA, listAA>>)}

\* the second variable of a declaration, y
MoreVars ==
    {[sym |-> [name |-> "y", type |-> UniformInt32, storageClass |-> "none"],
      init |-> symA],
     [sym |-> [name |-> "y", type |-> UniformInt32, storageClass |-> "static"],
      init |-> const1],
     [sym |-> [name |-> "y", type |-> ArrayType(UniformInt32, 0), storageClass |-> "none"],
      init |-> NoExpr],
     [sym |-> [name |-> "y", type |-> ArrayType(UniformInt32, 0), storageClass |-> "none"],
      init |-> listA]}

StorageClasses == {"none", "static"}

PrintValueShapes ==
    {NoExpr, symA, small8, refA, eStruct, eNoType, eUnoVal,
     ExprList("a,s", <<symA, eStruct>>), ExprList("a,b", <<symA, symB>>)}

\* type x = init;  or  static type x = init;
ParseDecl(type, init, sc) ==
    /\ phase = "parse"
    /\ stmt = NULL
    /\ stmt' = DeclStmt(<<[sym |-> [name |-> "x", type |-> type, storageClass |-> sc],
                          init |-> init]>>)
    /\ UNCHANGED <<g, orig, phase, diag, ctx, scan>>

\* type x = init, type y = init;
ParseMore(v) ==
    /\ phase = "parse"
    /\ stmt # NULL
    /\ stmt.kind = "DeclStmt"
    /\ Len(stmt.vars) = 1
    /\ stmt' = DeclStmt(Append(stmt.vars, v))
    /\ UNCHANGED <<g, orig, phase, diag, ctx, scan>>

\* print("x", values)
ParsePrint(values) ==
    /\ phase = "parse"
    /\ stmt = NULL
    /\ stmt' = PrintStmt("x", values)
    /\ UNCHANGED <<g, orig, phase, diag, ctx, scan>>

\* if (t) ; / do ; while (t) / for (; t; ) ; / assert(t), by kind
ParseTested(kind, t) ==
    /\ phase = "parse"
    /\ stmt = NULL
    /\ stmt' = CASE kind = "IfStmt" -> IfStmt(t, NULL, NULL, FALSE)
                 [] kind = "DoStmt" -> DoStmt(t, NULL, FALSE)
                 [] kind = "ForStmt" -> ForStmt(NULL, t, NULL, NULL, FALSE)
                 [] OTHER -> AssertStmt("m", t)
    /\ UNCHANGED <<g, orig, phase, diag, ctx, scan>>

NextDecl ==
    \/ \E ty \in DeclTypes, i \in DeclInits, sc \in StorageClasses : ParseDecl(ty, i, sc)
    \/ \E v \in MoreVars : ParseMore(v)
    \/ \E v \in PrintValueShapes : ParsePrint(v)
    \/ \E k \in {"IfStmt", "DoStmt", "ForStmt", "AssertStmt"},
          e \in {eU, eV, eStruct, eUnoVal, eNoType} :
           ParseTested(k, e)
    \/ RunTypeCheck
    \/ \E m \in FunctionMasks : RunEmitCode(m)

SpecDecl == Init /\ [][NextDecl]_vars

\* the error kinds of C6, as the diagnostics name them
TestErrors ==
    {"can't convert if test to bool", "can't convert do test to bool",
     "can't convert for test to bool", "can't convert assert test to bool"}
InitializerErrors ==
    {"initializer for reference must have same reference type",
     "initializer requires N values; M provided",
     "unsized array without initializer",
     "static initializer must be a constant",
     "expression list initializer for atomic or enum"}
PrintErrors == {"only atomic types are allowed in print statements"}
ConversionErrors == {"can't convert initializer"}

ErrorsOf(kinds) == {i \in 1..Len(diag) : diag[i].sev = "error" /\ diag[i].what \in kinds}

\* C6 as stated: whenever one of the error kinds is diagnosed for a
\* statement, TypeCheck of the statement has returned the failure sentinel
\* and the statement does not reach EmitCode.
C6_DiagnosedIsDropped ==
    ErrorsOf(TestErrors \cup InitializerErrors \cup PrintErrors \cup ConversionErrors) # {}
        => stmt = NULL /\ phase # "emitted"

\* C6: whenever TypeCheck diagnoses an error for a statement, which it does
\* for a test that cannot be converted to bool and for an initializer that
\* cannot be converted to the atomic or enum type of its variable, TypeCheck
\* returns the failure sentinel and the statement does not reach EmitCode.
\* The initializer and print errors are diagnosed by EmitCode, on a
\* statement TypeCheck has returned.
C6_TypeCheckErrorsDrop ==
    /\ (\E i \in 1..Len(diag) : diag[i].sev = "error" /\ diag[i].pass = "typecheck")
           => stmt = NULL /\ phase = "checked"
    /\ \A i \in ErrorsOf(TestErrors) : diag[i].pass = "typecheck"
    /\ \A i \in 1..Len(diag) :
           diag[i].sev = "error" /\ diag[i].pass = "typecheck"
               => diag[i].what \in TestErrors \cup ConversionErrors
    /\ \A i \in ErrorsOf(InitializerErrors \cup PrintErrors) :
           diag[i].pass = "emit" /\ stmt # NULL /\ phase = "emitted"

\* uniform int x = s with s a struct: TypeCheck reports the conversion and
\* drops the declaration
C6_Witness ==
    /\ phase = "checked"
    /\ orig.kind = "DeclStmt"
    /\ orig.vars[1].sym.type = UniformInt32 /\ orig.vars[1].init = eStruct
    /\ stmt = NULL
    /\ ErrorsOf(ConversionErrors) # {}

---------------------------------------------------------------------------
(* What DeclStmt::EmitCode has left for each variable of a declaration.    *)

DeclEmitted == phase = "emitted" /\ stmt # NULL /\ stmt.kind = "DeclStmt"

\* the pointer a store writes through
TargetOf(o) ==
    LET k == CHOOSE k \in 1..Len(o.v) : o.v[k] = "->"
    IN  SubSeq(o.v, k + 1, Len(o.v))

\* the stores into the storage of the symbol name, elements included
StoresTo(name) ==
    {j \in 1..Len(ctx.trace) :
         ctx.trace[j].op = "StoreInst" /\ TargetOf(ctx.trace[j])[1] = name}

\* the element pointers taken from pointer base
ElementPtrsOf(base) ==
    {j \in 1..Len(ctx.trace) :
         ctx.trace[j].op = "GetElementPtrInst" /\ ctx.trace[j].v = base}

Allocas(name) ==
    {j \in 1..Len(ctx.trace) :
         ctx.trace[j].op = "AllocaInst" /\ ctx.trace[j].v = <<name>>}

IsUnsized(v) == v.sym.type.cls = "array" /\ GetElementCount(v.sym.type) = 0

\* EmitCode has reached the variable: the first thing it does is to set
\* the symbol's varyingCFDepth
Processed(v) ==
    /\ v.sym.name \in DOMAIN ctx.syms
    /\ ctx.syms[v.sym.name].writes # <<>>
    /\ ctx.syms[v.sym.name].writes[1].field = "varyingCFDepth"

\* the variable has been given storage
HasStorage(v) ==
    /\ Processed(v)
    /\ ctx.syms[v.sym.name].storagePtr # NoValue

\* EmitCode gives the variable up with an error before it allocates
GivenUp(v) ==
    \/ IsUnsized(v) /\ v.init.kind # "ExprList"
    \/ IsReferenceType(v.sym.type) /\ v.init.kind = "NoExpr"

EmitErrors(what) ==
    {i \in 1..Len(ctx.diag) : ctx.diag[i].sev = "error" /\ ctx.diag[i].what = what}

\* an unsized array without a brace list: one error for each such variable,
\* no storage and no store for it, and the other variables go on
UnsizedGivenUp(i) ==
    LET v == stmt.vars[i]
    IN  /\ Cardinality(EmitErrors("unsized array without initializer"))
               = Cardinality({j \in 1..Len(stmt.vars) :
                                  IsUnsized(stmt.vars[j])
                                  /\ stmt.vars[j].init.kind # "ExprList"})
        /\ Processed(v) /\ ~HasStorage(v)
        /\ Allocas(v.sym.name) = {} /\ StoresTo(v.sym.name) = {}
        /\ ElementPtrsOf(<<v.sym.name>>) = {}
        /\ ctx.syms[v.sym.name].type = v.sym.type
        /\ \A j \in 1..Len(stmt.vars) :
               /\ Processed(stmt.vars[j])
               /\ ~GivenUp(stmt.vars[j]) => HasStorage(stmt.vars[j])

\* C15 as stated: after EmitCode of a declaration, a variable of an unsized
\* array type with a brace list of length k has the k-element array type
\* and exactly k element initializations; one without a brace list has an
\* error, no storage and no store, and the other variables are processed.
C15_UnsizedArraySized ==
    DeclEmitted =>
        \A i \in 1..Len(stmt.vars) :
            IsUnsized(stmt.vars[i]) =>
                IF stmt.vars[i].init.kind = "ExprList"
                THEN /\ ctx.syms[stmt.vars[i].sym.name].type
                            = GetSizedArray(stmt.vars[i].sym.type,
                                            Len(stmt.vars[i].init.exprs))
                     /\ Cardinality(ElementPtrsOf(<<stmt.vars[i].sym.name>>))
                            = Len(stmt.vars[i].init.exprs)
                ELSE UnsizedGivenUp(i)

\* C15: as above for a variable that is not static.  A static variable of
\* an unsized array type with a brace list of length k has the k-element
\* array type too, and no element initialization.
C15_UnsizedLocalArraySized ==
    DeclEmitted =>
        \A i \in 1..Len(stmt.vars) :
            IsUnsized(stmt.vars[i]) =>
                IF stmt.vars[i].init.kind = "ExprList"
                THEN /\ ctx.syms[stmt.vars[i].sym.name].type
                            = GetSizedArray(stmt.vars[i].sym.type,
                                            Len(stmt.vars[i].init.exprs))
                     /\ Cardinality(ElementPtrsOf(<<stmt.vars[i].sym.name>>))
                            = IF stmt.vars[i].sym.storageClass = "static" THEN 0
                              ELSE Len(stmt.vars[i].init.exprs)
                ELSE UnsizedGivenUp(i)

\* uniform int x[], y[] = {a};  x is given up with an error, y is a
\* one-element array with one element initialization
C15_Witness ==
    /\ DeclEmitted
    /\ Len(stmt.vars) = 2
    /\ IsUnsized(stmt.vars[1]) /\ stmt.vars[1].init = NoExpr
    /\ IsUnsized(stmt.vars[2]) /\ stmt.vars[2].init = listA
    /\ UnsizedGivenUp(1)
    /\ ctx.syms["y"].type = ArrayType(UniformInt32, 1)
    /\ Cardinality(ElementPtrsOf(<<"y">>)) = 1
    /\ Cardinality(StoresTo("y")) = 1

---------------------------------------------------------------------------
(* Brace initializers.  An initialization site is a pointer with the type  *)
(* and the initializer that belong to it: the storage of a variable, and   *)
(* under a collection whose brace list has the right length, element i     *)
(* with element-type(i) and init[i].                                       *)

IsBraceSite(st) == IsCollectionType(st.type) /\ st.init.kind = "ExprList"

IsMatchedSite(st) ==
    IsBraceSite(st) /\ Len(st.init.exprs) = GetElementCount(st.type)

RECURSIVE Sites(_, _, _)
Sites(lv, type, init) ==
    LET st == [lv |-> lv, type |-> type, init |-> init]
    IN  {st} \cup
        IF IsMatchedSite(st)
        THEN UNION {Sites(ElementPtr(lv, i), GetElementType(type, i + 1),
                          init.exprs[i + 1]) : i \in 0..(Len(init.exprs) - 1)}
        ELSE {}

\* the sites of the variables that EmitCode initializes on the stack
LocalVars ==
    {i \in 1..Len(stmt.vars) :
         /\ stmt.vars[i].sym.type # NoType
         /\ stmt.vars[i].sym.storageClass # "static"
         /\ ~GivenUp(stmt.vars[i])}

DeclSites ==
    UNION {Sites(<<stmt.vars[i].sym.name>>, ctx.syms[stmt.vars[i].sym.name].type,
                 stmt.vars[i].init) : i \in LocalVars}

\* the stores and element pointers at pointer lv or below it
OpsUnder(lv) ==
    {j \in 1..Len(ctx.trace) :
         \/ ctx.trace[j].op = "StoreInst" /\ IsPrefix(lv, TargetOf(ctx.trace[j]))
         \/ ctx.trace[j].op = "GetElementPtrInst" /\ IsPrefix(lv, ctx.trace[j].v)}

StoresAt(lv) ==
    {j \in 1..Len(ctx.trace) :
         ctx.trace[j].op = "StoreInst" /\ TargetOf(ctx.trace[j]) = lv}

\* the element pointer of element i of the collection at lv
ElementPtrOp(lv, i) ==
    CHOOSE j \in ElementPtrsOf(lv) : ctx.trace[j].b1 = i

\* a brace list of the wrong length: nothing is emitted for the collection
MismatchedSiteEmpty(st) == OpsUnder(st.lv) = {}

\* a brace list of the right length: one element pointer per element, in
\* increasing index order, and all that is emitted for element i comes
\* after its element pointer and before the next one
MatchedSiteInOrder(st) ==
    LET n == Len(st.init.exprs)
        ptrs == ElementPtrsOf(st.lv)
    IN  /\ Cardinality(ptrs) = n
        /\ {ctx.trace[j].b1 : j \in ptrs} = 0..(n - 1)
        /\ \A j, k \in ptrs : j < k => ctx.trace[j].b1 < ctx.trace[k].b1
        /\ StoresAt(st.lv) = {}
        /\ \A i \in 0..(n - 1) :
               \A m \in OpsUnder(ElementPtr(st.lv, i)) :
                   /\ ElementPtrOp(st.lv, i) < m
                   /\ i < n - 1 => m < ElementPtrOp(st.lv, i + 1)

\* an initializer that is not a brace list is stored through the pointer of
\* its site if it converts to the type of the site and has a value
PlainSiteStored(st) ==
    IF st.init.kind = "NoExpr"
    THEN /\ Cardinality(StoresAt(st.lv)) = 1
         /\ \A j \in StoresAt(st.lv) : ctx.trace[j].v = <<"undef", "->">> \o st.lv
    ELSE IF st.init.kind # "ExprList" /\ CanConvert(GetType(st.init), st.type)
            /\ st.init.val
    THEN /\ Cardinality(StoresAt(st.lv)) = 1
         /\ \A j \in StoresAt(st.lv) : ctx.trace[j].v = <<st.init.id, "->">> \o st.lv
    ELSE StoresAt(st.lv) = {}

\* C16: a collection with element count C and a brace list of length N has
\* its elements initialized only if N = C, then elements 0..N-1 in
\* increasing index order, element i through its own element pointer with
\* element-type(i) and init[i], recursively; if N # C an error is reported
\* and nothing is stored for the collection.
C16_BraceInitByElement ==
    DeclEmitted =>
        /\ \A st \in DeclSites :
               IF IsMatchedSite(st) THEN MatchedSiteInOrder(st)
               ELSE IF IsBraceSite(st) THEN MismatchedSiteEmpty(st)
               ELSE PlainSiteStored(st)
        /\ Cardinality(EmitErrors("initializer requires N values; M provided"))
               = Cardinality({st \in DeclSites : IsBraceSite(st) /\ ~IsMatchedSite(st)})

\* uniform int x[2][2] = {{a}, {a, a}}: element 0 has a list of the wrong
\* length and gets an error and no store, element 1 is initialized through
\* the pointers to its two elements
C16_Witness ==
    /\ DeclEmitted
    /\ Len(stmt.vars) = 1
    /\ stmt.vars[1].sym.type = ArrayType(ArrayType(UniformInt32, 2), 2)
    /\ stmt.vars[1].sym.storageClass = "none"
    /\ stmt.vars[1].init.id = "{{a},{a,a}}"
    /\ Cardinality(EmitErrors("initializer requires N values; M provided")) = 1
    /\ Cardinality(ElementPtrsOf(<<"x">>)) = 2
    /\ OpsUnder(<<"x", "elt", "0">>) = {}
    /\ Cardinality(ElementPtrsOf(<<"x", "elt", "1">>)) = 2
    /\ Cardinality(StoresAt(<<"x", "elt", "1", "elt", "0">>)) = 1
    /\ Cardinality(StoresAt(<<"x", "elt", "1", "elt", "1">>)) = 1
    /\ ElementPtrOp(<<"x">>, 1) < ElementPtrOp(<<"x", "elt", "1">>, 0)

---------------------------------------------------------------------------
(* Static and stack storage.  The operations EmitCode has emitted for      *)
(* vars[i] are those from the first assignment to its symbol up to the     *)
(* first assignment to the symbol of vars[i + 1].                          *)

VarStart(i) == ctx.syms[stmt.vars[i].sym.name].writes[1].at

VarEnd(i) == IF i < Len(stmt.vars) THEN VarStart(i + 1) ELSE Len(ctx.trace)

VarOps(i) == SubSeq(ctx.trace, VarStart(i) + 1, VarEnd(i))

\* the number of operations emitted before sym->field was assigned
WrittenAt(i, field) ==
    LET w == ctx.syms[stmt.vars[i].sym.name].writes
    IN  {w[k].at : k \in {k \in 1..Len(w) : w[k].field = field}}

StaticVars ==
    {i \in 1..Len(stmt.vars) :
         /\ stmt.vars[i].sym.type # NoType
         /\ stmt.vars[i].sym.storageClass = "static"
         /\ ~GivenUp(stmt.vars[i])}

\* initExpr->GetConstant(type) gives a constant
HasConstant(e) == e.kind = "ConstExpr"

\* module-scope storage with the constant of the initializer, or with zero
\* when there is none, and nothing of the initializer algorithm
StaticStorage(i) ==
    LET v == stmt.vars[i]
        ops == VarOps(i)
    IN  /\ [k \in 1..Len(ops) |-> ops[k].op]
               = <<"SetDebugPos", "GlobalVariable", "EmitVariableDebugInfo">>
        /\ ops[2].v = (IF HasConstant(v.init) THEN <<v.init.id>> ELSE <<"zero">>)
        /\ ops[3].v = <<v.sym.name>>
        /\ ctx.syms[v.sym.name].storagePtr = <<"static.", v.sym.name>>
        /\ WrittenAt(i, "storagePtr") = {VarStart(i) + 1}
        /\ WrittenAt(i, "parentFunction") = {}
        /\ OpsUnder(<<v.sym.name>>) = {}

\* stack slot, debug info, parent function, initializer, in that order
StackStorage(i) ==
    LET v == stmt.vars[i]
        ops == VarOps(i)
        rest == SubSeq(ops, 4, Len(ops))
    IN  /\ Len(ops) >= 3
        /\ [k \in 1..3 |-> ops[k].op]
               = <<"SetDebugPos", "AllocaInst", "EmitVariableDebugInfo">>
        /\ ops[2].v = <<v.sym.name>> /\ ops[3].v = <<v.sym.name>>
        /\ ctx.syms[v.sym.name].storagePtr = <<v.sym.name>>
        /\ WrittenAt(i, "storagePtr") = {VarStart(i) + 2}
        /\ WrittenAt(i, "parentFunction") = {VarStart(i) + 3}
        /\ ctx.syms[v.sym.name].parentFunction = <<"f">>
        /\ \A k \in 1..Len(rest) :
               rest[k].op \in {"StoreInst", "GetElementPtrInst", "GetValue"}
        /\ \A j \in OpsUnder(<<v.sym.name>>) : VarStart(i) + 3 < j /\ j <= VarEnd(i)
        /\ v.init.kind = "NoExpr"
               => Len(rest) = 1 /\ rest[1].op = "StoreInst"
                  /\ rest[1].v = <<"undef", "->", v.sym.name>>

\* C19: for a static symbol EmitCode allocates module-scope storage with
\* the initializer's compile-time constant, or zero when the initializer is
\* absent or has none, reports 'must be a constant' when a present
\* initializer has no constant, and emits nothing of the initializer
\* algorithm; for a symbol that is not static it allocates a stack slot,
\* emits debug info, records the parent function and then runs the
\* initializer algorithm, in that order.
C19_StaticAndStackStorage ==
    DeclEmitted =>
        /\ \A i \in StaticVars : StaticStorage(i)
        /\ \A i \in LocalVars : StackStorage(i)
        /\ Cardinality(EmitErrors("static initializer must be a constant"))
               = Cardinality({i \in StaticVars :
                                  stmt.vars[i].init.kind # "NoExpr"
                                  /\ ~HasConstant(stmt.vars[i].init)})

\* static uniform int x = a, y = a;  x gets zero-filled module-scope
\* storage and the error, y a stack slot and a store
C19_Witness ==
    /\ DeclEmitted
    /\ Len(stmt.vars) = 2
    /\ StaticVars = {1} /\ LocalVars = {2}
    /\ stmt.vars[1].init = symA
    /\ stmt.vars[2].init = symA
    /\ StaticStorage(1) /\ StackStorage(2)
    /\ VarOps(1)[2].v = <<"zero">>
    /\ Cardinality(EmitErrors("static initializer must be a constant")) = 1
    /\ Cardinality(StoresAt(<<"y">>)) = 1

---------------------------------------------------------------------------
(* The analyses of a statement on their own: the safety predicate and the  *)
(* cost estimate, over statements built up to MaxAnalyseDepth constructors *)
(* deep.                                                                    *)

MaxAnalyseDepth == 2

\* f(), a function call
eCall == MkExpr("f()", "FunctionCallExpr", UniformInt32, TRUE, "ok", 4, <<>>)

\* uniform int y;
DeclNoInit ==
    DeclStmt(<<[sym |-> [name |-> "y", type |-> UniformInt32, storageClass |-> "none"],
                init |-> NoExpr]>>)

AnalyseLeaves ==
    {ExprStmt(eAssign), ExprStmt(eCall), DeclX, DeclNoInit,
     BreakStmt(FALSE), BreakStmt(TRUE), ContinueStmt(FALSE),
     ReturnStmt(NoExpr, FALSE), ReturnStmt(symA, FALSE), ReturnStmt(eCall, FALSE),
     PrintStmt("x", NoExpr), PrintStmt("x", ExprList("a", <<symA>>)),
     AssertStmt("m", eU)}

CanAnalyseWrap == phase = "build" /\ Height(stmt) < MaxAnalyseDepth

InitAnalyse ==
    /\ g \in [disableUniformControlFlow : {FALSE}, disableCoherentControlFlow : {FALSE}]
    /\ orig = NULL
    /\ stmt = NULL
    /\ phase = "build"
    /\ diag = <<>>
    /\ ctx = NewContext(LLVMMaskAllOn)
    /\ scan = FALSE

BuildLeaf(l) ==
    /\ phase = "build"
    /\ stmt = NULL
    /\ stmt' = l
    /\ UNCHANGED <<g, orig, phase, diag, ctx, scan>>

\* if (t) stmt else other, or if (t) other else stmt
BuildIf(t, other, inElse) ==
    /\ CanAnalyseWrap
    /\ stmt' = IF inElse THEN IfStmt(t, other, stmt, FALSE) ELSE IfStmt(t, stmt, other, FALSE)
    /\ UNCHANGED <<g, orig, phase, diag, ctx, scan>>

\* do stmt while (t)
BuildDo(t) ==
    /\ CanAnalyseWrap
    /\ stmt' = DoStmt(t, stmt, FALSE)
    /\ UNCHANGED <<g, orig, phase, diag, ctx, scan>>

\* for (i; t; st) stmt
BuildFor(i, t, st) ==
    /\ CanAnalyseWrap
    /\ stmt' = ForStmt(i, t, st, stmt, FALSE)
    /\ UNCHANGED <<g, orig, phase, diag, ctx, scan>>

\* { before stmt after }
BuildList(before, after) ==
    /\ CanAnalyseWrap
    /\ stmt' = StmtList(before \o <<stmt>> \o after)
    /\ UNCHANGED <<g, orig, phase, diag, ctx, scan>>

\* lSafeToRunWithAllLanesOff(stmt), as emitVaryingIf calls it on a branch
RunSafe ==
    /\ phase = "build"
    /\ scan' = lSafeToRunWithAllLanesOff(stmt)
    /\ phase' = "safety"
    /\ UNCHANGED <<g, orig, stmt, diag, ctx>>

\* stmt->EstimateCost(), as emitVaryingIf calls it on a branch
RunCost ==
    /\ phase = "build"
    /\ stmt # NULL
    /\ scan' = EstimateCost(stmt)
    /\ phase' = "cost"
    /\ UNCHANGED <<g, orig, stmt, diag, ctx>>

AnalyseIfShapes == {eU, eV, eCall} \X {NULL, ReturnStmt(NoExpr, FALSE)} \X BOOLEAN

AnalyseForShapes ==
    {<<NULL, NoExpr, NULL>>, <<NULL, eV, NULL>>, <<DeclX, eU, ExprStmt(eAssign)>>}

AnalyseListShapes ==
    {<< <<>>, <<>> >>, << <<NULL>>, <<>> >>, << <<>>, <<ExprStmt(eAssign)>> >>}

NextAnalyse ==
    \/ \E l \in AnalyseLeaves : BuildLeaf(l)
    \/ \E x \in AnalyseIfShapes : BuildIf(x[1], x[2], x[3])
    \/ \E e \in {eU, eV} : BuildDo(e)
    \/ \E x \in AnalyseForShapes : BuildFor(x[1], x[2], x[3])
    \/ \E x \in AnalyseListShapes : BuildList(x[1], x[2])
    \/ RunSafe
    \/ RunCost

SpecAnalyse == InitAnalyse /\ [][NextAnalyse]_vars

\* the table of the safety predicate for statements; expressions are
\* judged by the expression predicate, an absent statement is safe
RECURSIVE SafeByTable(_)
SafeByTable(s) ==
    CASE s.kind = "Null" -> TRUE
      [] s.kind = "ExprStmt" -> lSafeToRunWithAllLanesOffExpr(s.expr)
      [] s.kind = "DeclStmt" ->
            \A i \in 1..Len(s.vars) :
                s.vars[i].init.kind # "NoExpr"
                    => lSafeToRunWithAllLanesOffExpr(s.vars[i].init)
      [] s.kind = "IfStmt" ->
            /\ lSafeToRunWithAllLanesOffExpr(s.test)
            /\ SafeByTable(s.trueStmts) /\ SafeByTable(s.falseStmts)
      [] s.kind = "DoStmt" ->
            lSafeToRunWithAllLanesOffExpr(s.testExpr) /\ SafeByTable(s.bodyStmts)
      [] s.kind = "ForStmt" ->
            /\ SafeByTable(s.init) /\ lSafeToRunWithAllLanesOffExpr(s.test)
            /\ SafeByTable(s.step) /\ SafeByTable(s.stmts)
      [] s.kind \in {"BreakStmt", "ContinueStmt"} -> TRUE
      [] s.kind = "ReturnStmt" ->
            s.val.kind = "NoExpr" \/ lSafeToRunWithAllLanesOffExpr(s.val)
      [] s.kind = "StmtList" -> \A i \in 1..Len(s.stmts) : SafeByTable(s.stmts[i])
      [] s.kind = "PrintStmt" -> lSafeToRunWithAllLanesOffExpr(s.values)
      [] OTHER -> FALSE

\* C12: lSafeToRunWithAllLanesOff(stmt) equals the recursive definition of
\* the table: ExprStmt iff its expression is safe, DeclStmt iff every
\* initializer is safe, If iff test and branches are safe, Do/For iff every
\* part is safe, Break/Continue always, StmtList iff every element, Print
\* iff its value list is safe, Assert never, Return iff its value is safe or
\* absent.
C12_SafeAsTable ==
    phase = "safety" => (scan <=> SafeByTable(stmt))

\* the table of the cost estimate: the costs of the children plus the
\* constant of the variant
RECURSIVE CostByTable(_)
RECURSIVE SumCostByTable(_)
SumCostByTable(ss) ==
    IF Len(ss) = 0 THEN 0 ELSE CostByTable(Head(ss)) + SumCostByTable(Tail(ss))

CostByTable(s) ==
    LET ecost(e) == IF e.kind = "NoExpr" THEN 0 ELSE ExprEstimateCost(e)
    IN
    CASE s.kind = "Null" -> 0
      [] s.kind = "ExprStmt" -> ecost(s.expr)
      [] s.kind = "DeclStmt" -> SumInitCost(s.vars)
      [] s.kind = "IfStmt" ->
            ecost(s.test) + CostByTable(s.trueStmts) + CostByTable(s.falseStmts)
            + (IF IsUniformType(GetType(s.test)) THEN COST_UNIFORM_IF
               ELSE COST_VARYING_IF)
      [] s.kind = "DoStmt" ->
            ecost(s.testExpr) + CostByTable(s.bodyStmts)
            + (IF IsUniformType(GetType(s.testExpr)) THEN COST_UNIFORM_LOOP
               ELSE COST_VARYING_LOOP)
      [] s.kind = "ForStmt" ->
            CostByTable(s.init) + ecost(s.test) + CostByTable(s.step)
            + CostByTable(s.stmts)
            + (IF ForUniformTest(s) THEN COST_UNIFORM_LOOP ELSE COST_VARYING_LOOP)
      [] s.kind \in {"BreakStmt", "ContinueStmt"} ->
            IF s.doCoherenceCheck THEN COST_COHERENT_BREAK_CONTINE
            ELSE COST_REGULAR_BREAK_CONTINUE
      [] s.kind = "ReturnStmt" -> COST_RETURN + ecost(s.val)
      [] s.kind = "StmtList" -> SumCostByTable(s.stmts)
      [] s.kind = "PrintStmt" -> COST_FUNCALL + ecost(s.values)
      [] s.kind = "AssertStmt" -> COST_ASSERT + ecost(s.expr)
      [] OTHER -> 0

\* C18: EstimateCost of a statement is the sum of its children's costs plus
\* the constant of its variant: a do or for loop adds COST_UNIFORM_LOOP or
\* COST_VARYING_LOOP by its test type, an if COST_UNIFORM_IF or
\* COST_VARYING_IF, break and continue the regular or the coherent
\* constant, return COST_RETURN, print COST_FUNCALL, assert COST_ASSERT;
\* and the statement is as it was.
C18_CostAsTable ==
    phase = "cost" => scan = CostByTable(stmt)

---------------------------------------------------------------------------
(* Stores through an index expression, alone and under an if with a        *)
(* varying test.                                                            *)

IndexExpr(base, index) ==
    MkExpr("v[i]", "IndexExpr", VaryingInt32, TRUE, "ok", 1, <<base, index>>)

\* v[i] = 1
IndexStore(base, index) ==
    ExprStmt(MkExpr("v[i]=1", "AssignExpr", VaryingInt32, TRUE, "ok", 2,
                    <<IndexExpr(base, index), const1>>))

SeqSymbol(type) == MkExpr("v", "SymbolExpr", type, TRUE, "ok", 0, <<>>)

\* an array of 2, an array of unknown size, a reference to an array of 2, a
\* vector of 2, a base of unknown type, no base
IndexBases ==
    {SeqSymbol(ArrayType(VaryingInt32, 2)), SeqSymbol(ArrayType(VaryingInt32, 0)),
     SeqSymbol(ReferenceType(ArrayType(VaryingInt32, 2))),
     SeqSymbol(VectorType(VaryingInt32, 2)), eNoType, NoExpr}

\* constant indices, uniform and varying, in and out of bounds, and indices
\* that are not constants
IndexIndices ==
    {ConstExpr("0", UniformInt32, <<0>>), ConstExpr("1", UniformInt32, <<1>>),
     ConstExpr("2", UniformInt32, <<2>>), ConstExpr("-1", UniformInt32, <<-1>>),
     ConstExpr("{0,1}", VaryingInt32, <<0, 1>>), ConstExpr("{1,2}", VaryingInt32, <<1, 2>>),
     symA, symB}

ParseStore(base, index) ==
    /\ phase = "parse"
    /\ stmt = NULL
    /\ stmt' = IndexStore(base, index)
    /\ UNCHANGED <<g, orig, phase, diag, ctx, scan>>

\* if (b < a) stmt [else b = a;]
ParseGuard(fs) ==
    /\ phase = "parse"
    /\ stmt.kind = "ExprStmt"
    /\ stmt' = IfStmt(eV, stmt, fs, FALSE)
    /\ UNCHANGED <<g, orig, phase, diag, ctx, scan>>

NextIndex ==
    \/ \E b \in IndexBases, i \in IndexIndices : ParseStore(b, i)
    \/ \E fs \in {NULL, ExprStmt(eAssign)} : ParseGuard(fs)
    \/ RunTypeCheck
    \/ \E m \in FunctionMasks : RunEmitCode(m)

SpecIndex == Init /\ [][NextIndex]_vars

\* the index expression stored through by the statement in hand
StoreStmt == IF stmt.kind = "IfStmt" THEN stmt.trueStmts ELSE stmt
StoreIndexExpr == StoreStmt.expr.exprs[1]

\* the table row for Index: the base is an array or vector, behind a
\* reference or not, of known size > 0, the index is a constant expression
\* and every constant index is in [0, size)
IndexSafeByTable(e) ==
    LET base == e.exprs[1]
        index == e.exprs[2]
        seq == IF base.kind = "NoExpr" \/ GetType(base) = NoType THEN NoType
               ELSE IF GetType(base).cls = "reference" THEN GetType(base).elems[1]
               ELSE GetType(base)
    IN  /\ seq.cls \in {"array", "vector"}
        /\ seq.count > 0
        /\ index.kind = "ConstExpr"
        /\ \A k \in 1..Len(index.ints) : 0 <= index.ints[k] /\ index.ints[k] < seq.count

\* the branch statement of call ChildCalls[i] was reached after the if set
\* the mask to mask & test and branched on any() of the full mask
GatedByAnyOfTest(i) ==
    \E j \in 2..ChildCalls[i].from :
        /\ ctx.trace[j].nest = 1
        /\ ctx.trace[j].op = "CondBranchInst"
        /\ \E k \in 1..(j - 1) :
               /\ ctx.trace[k].nest = 1
               /\ ctx.trace[k].op \in {"SetInternalMaskAnd", "SetInternalMaskAndNot"}
               /\ SubSeq(ctx.trace[k].v, 2, Len(ctx.trace[k].v))
                      = LLVMMaskAllOn \o ValueOf(stmt.test)
               /\ ctx.trace[j].v = AnyValue(<<"and">> \o ctx.trace[k].v \o ctx.functionMask)

\* C13: an index expression is judged safe iff its base is an array or
\* vector (behind a reference or not) of known size > 0, its index is a
\* constant expression and every constant index is in [0, size); an if with
\* a varying test whose branch stores through an index that is not a
\* constant is not predicated: the branch is emitted behind a branch on
\* any(mask & test).
C13_IndexSafeIffInBounds ==
    /\ stmt # NULL
           => (lSafeToRunWithAllLanesOffExpr(StoreIndexExpr)
                   <=> IndexSafeByTable(StoreIndexExpr))
    /\ PlainVaryingIfEmitted /\ StoreIndexExpr.exprs[2].kind # "ConstExpr"
           => /\ ~Predicated
              /\ Len(ChildCalls) >= 1
              /\ \A i \in 1..Len(ChildCalls) : GatedByAnyOfTest(i)

\* if (b < a) v[b] = 1; with v an array of 2 and an unknown function mask
C13_Witness ==
    /\ PlainVaryingIfEmitted
    /\ stmt.falseStmts = NULL
    /\ StoreIndexExpr.exprs[1] = SeqSymbol(ArrayType(VaryingInt32, 2))
    /\ StoreIndexExpr.exprs[2] = symB
    /\ MixedBody /\ ~Predicated
    /\ Len(ChildCalls) = 1 /\ GatedByAnyOfTest(1)

---------------------------------------------------------------------------
(* Print statements on their own: up to MaxPrintArgs values drawn from a   *)
(* catalogue of argument expressions.                                       *)

MaxPrintArgs == 2

PrintSymbol(id, type, val) == MkExpr(id, "SymbolExpr", type, val, "ok", 0, <<>>)

\* uniform and varying atomics, 8- and 16-bit integers, a const, a
\* reference, a struct, an expression of unknown type, an expression that
\* yields no value
PrintArgExprs ==
    {symA, symB,
     PrintSymbol("c", AtomicType("int8", "uniform"), TRUE),
     PrintSymbol("h", AtomicType("uint16", "varying"), TRUE),
     PrintSymbol("k", AsConstType(UniformInt32), TRUE),
     PrintSymbol("t", VaryingBool, TRUE),
     PrintSymbol("d", AtomicType("double", "uniform"), TRUE),
     PrintSymbol("r", ReferenceType(VaryingInt32), TRUE),
     PrintSymbol("n", UniformInt32, FALSE),
     eStruct, eNoType}

PrintArgLists == UNION {[1..n -> PrintArgExprs] : n \in 1..MaxPrintArgs}

\* print("x"); print("x", e); print("x", e1, .., en)
PrintShapes ==
    {NoExpr} \cup PrintArgExprs \cup {ExprList("args", l) : l \in PrintArgLists}

NextPrint ==
    \/ \E v \in PrintShapes : ParsePrint(v)
    \/ RunTypeCheck
    \/ \E m \in FunctionMasks : RunEmitCode(m)

SpecPrint == Init /\ [][NextPrint]_vars

\* the type of a value once a reference is looked through
PrintedType(e) ==
    IF GetType(e) # NoType /\ GetType(e).cls = "reference" THEN GetType(e).elems[1]
    ELSE GetType(e)

\* the letter of the table for an atomic type: 8- and 16-bit integers as
\* 32-bit int, lowercase for uniform and uppercase for varying
TableLetter(t) ==
    LET row == CASE t.base = "bool" -> <<"b", "B">>
                 [] t.base \in {"int8", "uint8", "int16", "uint16", "int32"} -> <<"i", "I">>
                 [] t.base = "uint32" -> <<"u", "U">>
                 [] t.base = "float" -> <<"f", "F">>
                 [] t.base = "int64" -> <<"l", "L">>
                 [] t.base = "uint64" -> <<"v", "V">>
                 [] OTHER -> <<"d", "D">>
    IN  IF t.var = "uniform" THEN row[1] ELSE row[2]

PrintEmitted == Emitted /\ stmt.kind = "PrintStmt"

AllAtomic(es) == \A i \in 1..Len(es) : PrintedType(es[i]).cls = "atomic"
AllValued(es) == \A i \in 1..Len(es) : es[i].val

IsDoPrint(o) == o.op = "CallInst" /\ o.v[1] = "__do_print"
IsArrayStore(o) ==
    /\ o.op = "StoreInst" /\ Len(o.v) >= 3
    /\ SubSeq(o.v, Len(o.v) - 2, Len(o.v) - 1) = <<"print_arg_ptrs", "elt">>
IsElementPtr(o) == o.op = "GetElementPtrInst" /\ o.v = <<"print_arg_ptrs">>

\* one call of __do_print, with the type string of the table and the array
\* argument, and one entry of the array per value, stored in order
PrintedAsTable(es) ==
    LET calls == SelectSeq(ctx.trace, IsDoPrint)
        stores == SelectSeq(ctx.trace, IsArrayStore)
        slots == SelectSeq(ctx.trace, IsElementPtr)
    IN  /\ Len(calls) = 1
        /\ calls[1].v = << "__do_print", stmt.format, "|" >>
                            \o [i \in 1..Len(es) |-> TableLetter(PrintedType(es[i]))]
                            \o << "|", IF stmt.values.kind = "NoExpr" THEN "null"
                                       ELSE "print_arg_ptrs" >>
        /\ Len(stores) = Len(es) /\ Len(slots) = Len(es)
        /\ \A i \in 1..Len(es) :
               /\ slots[i].b1 = i - 1
               /\ stores[i].v = << "print_arg", es[i].id, "->" >>
                                   \o ElementPtr(<<"print_arg_ptrs">>, i - 1)

\* C14 as stated: a print whose values are all atomic once references are
\* looked through emits the type string of the table, one letter per value,
\* and an array of as many entries stored in argument order; with no values
\* the type string is empty and the array argument is a null pointer.
C14_PrintAsTable ==
    PrintEmitted /\ AllAtomic(PrintValues(stmt)) => PrintedAsTable(PrintValues(stmt))

\* C14: the same for a print whose values are all atomic once references
\* are looked through and each yield a value when evaluated; a value whose
\* evaluation yields nothing ends EmitCode before the call.
C14_PrintValuedAsTable ==
    /\ PrintEmitted /\ AllAtomic(PrintValues(stmt)) /\ AllValued(PrintValues(stmt))
           => PrintedAsTable(PrintValues(stmt))
    /\ PrintEmitted /\ ~AllValued(PrintValues(stmt))
           => SelectSeq(ctx.trace, IsDoPrint) = <<>>

\* print("x", c, r) with c a uniform int8 and r a reference to a varying
\* int32: the type string is "iI"
C14_Witness ==
    /\ PrintEmitted
    /\ Len(PrintValues(stmt)) = 2
    /\ GetType(PrintValues(stmt)[1]) = AtomicType("int8", "uniform")
    /\ GetType(PrintValues(stmt)[2]) = ReferenceType(VaryingInt32)
    /\ \E i \in 1..Len(ctx.trace) :
           /\ IsDoPrint(ctx.trace[i])
           /\ SubSeq(ctx.trace[i].v, 4, 5) = <<"i", "I">>
    /\ PrintedAsTable(PrintValues(stmt))

---------------------------------------------------------------------------
(* Coherent statements with a uniform test, on their own and under one     *)
(* enclosing if, loop or list.                                             *)

\* cif (a < a) ;   cdo ; while (a < a)   cfor (; a < a; ) ;
CoherentUniformStmts ==
    {IfStmt(eU, NULL, NULL, TRUE), DoStmt(eU, NULL, TRUE),
     ForStmt(NULL, eU, NULL, NULL, TRUE)}

CoherentLeaves == CoherentUniformStmts \cup {ExprStmt(eAssign)}

CoherentIfShapes == {eU, eV} \X {NULL, ExprStmt(eAssign)} \X BOOLEAN

CoherentLoopShapes == {eU, eV} \X BOOLEAN

NextCoherent ==
    \/ \E l \in CoherentLeaves : ParseSimple(l)
    \/ \E x \in CoherentIfShapes : ParseIf(x[1], x[2], x[3])
    \/ \E x \in CoherentLoopShapes : ParseDo(x[1], x[2])
    \/ \E x \in CoherentLoopShapes : ParseFor(NULL, x[1], NULL, x[2])
    \/ \E x \in ListShapes : ParseList(x[1], x[2])
    \/ RunTypeCheck
    \/ \E m \in FunctionMasks : RunEmitCode(m)

SpecCoherent == Init /\ [][NextCoherent]_vars

\* a statement in coherent form whose test is uniform
IsCoherentUniformSite(s) ==
    CASE s.kind = "IfStmt" ->
            /\ s.doAllCheck
            /\ s.test.kind # "NoExpr" /\ GetType(s.test) # NoType
            /\ IsUniformType(GetType(s.test))
      [] s.kind = "DoStmt" ->
            /\ s.doCoherentCheck
            /\ s.testExpr.kind # "NoExpr" /\ GetType(s.testExpr) # NoType
            /\ IsUniformType(GetType(s.testExpr))
      [] s.kind = "ForStmt" ->
            /\ s.doCoherentCheck
            /\ s.test.kind # "NoExpr" /\ GetType(s.test) # NoType
            /\ IsUniformType(GetType(s.test))
      [] OTHER -> FALSE

CoherentUniformSites(s) == {x \in StmtsOf(s) : IsCoherentUniformSite(x)}

UniformConditionWarnings ==
    {i \in 1..Len(ctx.diag) :
         /\ ctx.diag[i].sev = "warning"
         /\ ctx.diag[i].what \in {"uniform condition supplied to cif",
                                  "uniform condition supplied to cdo",
                                  "uniform condition supplied to cfor"}}

\* C17: a compilation gives the 'uniform condition supplied' warning
\* exactly once for each coherent if, do or for statement with a uniform
\* test, wherever the statement is nested.
C17_WarnedOncePerSite ==
    Emitted /\ stmt # NULL /\ ctx.fault = <<>>
        => Cardinality(UniformConditionWarnings)
               = Cardinality(CoherentUniformSites(stmt))

---------------------------------------------------------------------------
(* An if with a uniform test, with branches that leave their block live    *)
(* and branches that end it.                                               *)

IfBranchLeaves ==
    {ExprStmt(eAssign), ReturnStmt(NoExpr, FALSE), BreakStmt(FALSE)}

IfBranchShapes ==
    {eU, eV, eUnoVal}
        \X {NULL, ExprStmt(eAssign), ReturnStmt(NoExpr, FALSE),
            StmtList(<<ExprStmt(eAssign), ReturnStmt(NoExpr, FALSE)>>)}
        \X BOOLEAN

NextIf ==
    \/ \E l \in IfBranchLeaves : ParseSimple(l)
    \/ \E x \in IfBranchShapes : ParseIf(x[1], x[2], x[3])
    \/ \E x \in ListShapes : ParseList(x[1], x[2])
    \/ RunTypeCheck
    \/ \E m \in FunctionMasks : RunEmitCode(m)

SpecIf == Init /\ [][NextIf]_vars

\* the top-level statement is an if with a uniform test that has a value
UniformIfEmitted ==
    /\ Emitted /\ stmt # NULL /\ stmt.kind = "IfStmt"
    /\ stmt.test.kind # "NoExpr" /\ GetType(stmt.test) # NoType
    /\ IsUniformType(GetType(stmt.test))
    /\ ValueOf(stmt.test) # NoValue

\* the block EmitCode created under name
OwnBlock(name) ==
    LET k == CHOOSE k \in 1..Len(OwnOps) :
                 OwnOps[k].op = "CreateBasicBlock" /\ OwnOps[k].v = <<name>>
    IN  OwnOps[k].b1

\* the call of EmitCode for branch number n (1 then, 2 else) among the
\* branches that are present
BranchCall(n) ==
    IF n = 1 \/ stmt.trueStmts.kind = "Null" THEN ChildCalls[1] ELSE ChildCalls[2]

\* the branch has left a current basic block
BranchLeftLive(b, n) == b.kind = "Null" \/ BranchCall(n).liveOut

\* what EmitCode of the if issues itself for one branch
BranchOwnOps(b, n) ==
    (IF b.kind = "Null" THEN <<>>
     ELSE IF IsStmtList(b) THEN <<"AddInstrumentationPoint">>
     ELSE <<"StartScope", "AddInstrumentationPoint", "EndScope">>)
    \o (IF BranchLeftLive(b, n) THEN <<"BranchInst">> ELSE <<>>)

\* the number of operations of the if itself before branch n is emitted
BranchEntry(n) ==
    8 + (IF n = 1 THEN 0 ELSE Len(BranchOwnOps(stmt.trueStmts, 1)) + 1)
      + (IF IsStmtList(IF n = 1 THEN stmt.trueStmts ELSE stmt.falseStmts) THEN 1 ELSE 2)

OwnOpsBefore(j) == Cardinality({k \in 1..j : ctx.trace[k].nest = 1})

\* the statements of branch b are emitted right after the if has made the
\* block of the branch the current block, by one call of EmitCode
BranchInOwnBlock(b, n) ==
    b.kind # "Null" =>
        /\ BranchCall(n).kind = b.kind
        /\ BranchCall(n).live
        /\ OwnOpsBefore(BranchCall(n).from) = BranchEntry(n)
        /\ \A j \in (BranchCall(n).from + 1)..BranchCall(n).to :
               ctx.trace[j].nest > 1

\* C20: for an if with a uniform test, EmitCode creates the then, else and
\* exit blocks, emits one conditional branch on the test, emits the
\* statements of each branch in the block of the branch, appends a branch
\* to exit after a branch iff the branch has left a current block, and
\* finishes with exit as the current block.
C20_UniformIfBlocks ==
    UniformIfEmitted /\ ctx.fault = <<>> =>
        /\ [k \in 1..Len(OwnOps) |-> OwnOps[k].op]
               = <<"SetDebugPos", "GetValue", "StartUniformIf", "CreateBasicBlock",
                   "CreateBasicBlock", "CreateBasicBlock", "CondBranchInst",
                   "SetCurrentBasicBlock">>
                 \o BranchOwnOps(stmt.trueStmts, 1)
                 \o <<"SetCurrentBasicBlock">>
                 \o BranchOwnOps(stmt.falseStmts, 2)
                 \o <<"SetCurrentBasicBlock", "EndIf">>
        /\ <<OwnOps[4].v, OwnOps[5].v, OwnOps[6].v>>
               = << <<"if_then">>, <<"if_else">>, <<"if_exit">> >>
        /\ Cardinality({OwnBlock("if_then"), OwnBlock("if_else"), OwnBlock("if_exit")}) = 3
        /\ OwnOps[7].b1 = OwnBlock("if_then") /\ OwnOps[7].b2 = OwnBlock("if_else")
        /\ OwnOps[7].v = ValueOf(stmt.test)
        /\ OwnOps[8].b1 = OwnBlock("if_then")
        /\ OwnOps[9 + Len(BranchOwnOps(stmt.trueStmts, 1))].b1 = OwnBlock("if_else")
        /\ Len(ChildCalls) = Cardinality({n \in 1..2 :
                                (IF n = 1 THEN stmt.trueStmts ELSE stmt.falseStmts).kind
                                    # "Null"})
        /\ BranchInOwnBlock(stmt.trueStmts, 1)
        /\ BranchInOwnBlock(stmt.falseStmts, 2)
        /\ \A k \in 1..Len(OwnOps) :
               OwnOps[k].op = "BranchInst" => OwnOps[k].b1 = OwnBlock("if_exit")
        /\ OwnOps[Len(OwnOps) - 1].b1 = OwnBlock("if_exit")
        /\ ctx.bblock = OwnBlock("if_exit")

\* if (a < a) return; else { b = a; return; }: both branches end their
\* blocks, no branch to exit is emitted, and exit is the current block
C20_Witness ==
    /\ UniformIfEmitted /\ ctx.fault = <<>>
    /\ stmt.trueStmts.kind = "ReturnStmt"
    /\ stmt.falseStmts.kind = "StmtList"
    /\ ~BranchLeftLive(stmt.trueStmts, 1)
    /\ ~BranchLeftLive(stmt.falseStmts, 2)
    /\ \A k \in 1..Len(OwnOps) : OwnOps[k].op # "BranchInst"
    /\ ctx.bblock = OwnBlock("if_exit")

---------------------------------------------------------------------------
(* Reading the calls of EmitCode.  ctx.calls has a record for every call   *)
(* that returned, in the order of return: the calls a call made come       *)
(* before it.                                                              *)

\* the operations call number i issued itself, in order
CallOps(i) ==
    LET k == ctx.calls[i]
        own(o) == o.nest = k.nest + 1
    IN  SelectSeq(SubSeq(ctx.trace, k.from + 1, k.to), own)

OpNames(ops) == [j \in 1..Len(ops) |-> ops[j].op]

\* the calls that call number i made: those before it, one level deeper,
\* with no call of its own level or above in between
SubCalls(i) ==
    LET k == ctx.calls[i]
        idx == {j \in 1..(i - 1) :
                    /\ ctx.calls[j].nest = k.nest + 1
                    /\ \A m \in (j + 1)..(i - 1) : ctx.calls[m].nest > k.nest}
    IN  [n \in 1..Cardinality(idx) |->
            ctx.calls[CHOOSE j \in idx : Cardinality({m \in idx : m <= j}) = n]]

\* the block call number i created under name
CallBlock(i, name) ==
    LET ops == CallOps(i)
        k == CHOOSE k \in 1..Len(ops) :
                 ops[k].op = "CreateBasicBlock" /\ ops[k].v = <<name>>
    IN  ops[k].b1

\* what an if issues itself around the statements of one branch
EmitIfOps(b) ==
    IF b.kind = "Null" THEN <<>>
    ELSE IF IsStmtList(b) THEN <<"AddInstrumentationPoint">>
    ELSE <<"StartScope", "AddInstrumentationPoint", "EndScope">>

\* the call is EmitCode of an if with a varying test that has a value,
\* entered with a current block
IsVaryingIfCall(k) ==
    /\ k.kind = "IfStmt" /\ k.live
    /\ IsVaryingIf(k.s) /\ ValueOf(k.s.test) # NoValue

FullMaskOf(k) ==
    IF k.mask = LLVMMaskAllOn /\ k.fmask = LLVMMaskAllOn THEN LLVMMaskAllOn
    ELSE <<"and">> \o k.mask \o k.fmask

\* the ifs that go through emitMaskAllOn: the full mask is all on at
\* compile time, or the if is coherent
AllOnCalls ==
    {i \in 1..Len(ctx.calls) :
         /\ IsVaryingIfCall(ctx.calls[i])
         /\ FullMaskOf(ctx.calls[i]) = LLVMMaskAllOn \/ ctx.calls[i].s.doAllCheck}

\* the number of operations of the if before emitMaskAllOn starts
AllOnStart(i) == IF FullMaskOf(ctx.calls[i]) = LLVMMaskAllOn THEN 3 ELSE 8

BranchPresent(b) == b.kind # "Null"

\* the calls emitMaskAllOn makes, by sub-path: 0 where the branch is absent
AllTrueCall(i) == IF BranchPresent(ctx.calls[i].s.trueStmts) THEN 1 ELSE 0
NoneCall(i) ==
    IF BranchPresent(ctx.calls[i].s.falseStmts) THEN AllTrueCall(i) + 1 ELSE 0
MixedTrueCall(i) ==
    IF BranchPresent(ctx.calls[i].s.trueStmts)
    THEN (IF BranchPresent(ctx.calls[i].s.falseStmts) THEN 3 ELSE 2)
    ELSE 0
MixedFalseCall(i) ==
    IF BranchPresent(ctx.calls[i].s.falseStmts)
    THEN (IF BranchPresent(ctx.calls[i].s.trueStmts) THEN 4 ELSE 2)
    ELSE 0

\* the sub-path whose call is number n has left a current block
SubPathLive(i, n) == n = 0 \/ SubCalls(i)[n].liveOut

BranchIf(live) == IF live THEN <<"BranchInst">> ELSE <<>>

\* the operations of emitMaskAllOn
AllOnOpNames(i) ==
    LET T == ctx.calls[i].s.trueStmts
        F == ctx.calls[i].s.falseStmts
    IN  <<"SetInternalMask", "SetFunctionMask", "CreateBasicBlock", "CreateBasicBlock",
          "All", "CondBranchInst", "SetCurrentBasicBlock", "StartVaryingIf">>
        \o EmitIfOps(T) \o <<"EndIf">> \o BranchIf(SubPathLive(i, AllTrueCall(i)))
        \o <<"SetCurrentBasicBlock", "CreateBasicBlock", "CreateBasicBlock", "Any",
             "CondBranchInst", "SetCurrentBasicBlock", "StartVaryingIf">>
        \o EmitIfOps(F) \o <<"EndIf">> \o BranchIf(SubPathLive(i, NoneCall(i)))
        \o <<"SetCurrentBasicBlock", "StartVaryingIf">>
        \o (IF BranchPresent(T) THEN <<"SetInternalMaskAnd">> \o EmitIfOps(T) ELSE <<>>)
        \o (IF BranchPresent(F) THEN <<"SetInternalMaskAndNot">> \o EmitIfOps(F) ELSE <<>>)
        \o <<"EndIf", "BranchInst", "SetCurrentBasicBlock", "SetFunctionMask">>

\* the operations call number i issued in emitMaskAllOn
AllOnOps(i) ==
    SubSeq(CallOps(i), AllOnStart(i) + 1, AllOnStart(i) + Len(AllOnOpNames(i)))

AllOnDispatch(i) ==
    LET k == ctx.calls[i]
        ops == AllOnOps(i)
        t == ValueOf(k.s.test)
        sub == SubCalls(i)
        second == 10 + Len(EmitIfOps(k.s.trueStmts))
                  + Len(BranchIf(SubPathLive(i, AllTrueCall(i))))
        done == CallBlock(i, "cif_done")
    IN  /\ Len(CallOps(i)) >= AllOnStart(i) + Len(AllOnOpNames(i))
        /\ OpNames(ops) = AllOnOpNames(i)
        /\ ops[1].v = LLVMMaskAllOn /\ ops[2].v = LLVMMaskAllOn
        \* all(t): the then statements alone
        /\ ops[5].v = t /\ ops[6].v = AllValue(t)
        /\ ops[6].b1 = CallBlock(i, "cif_test_all")
        /\ ops[6].b2 = CallBlock(i, "cif_test_none_check")
        /\ ops[7].b1 = CallBlock(i, "cif_test_all")
        /\ AllTrueCall(i) # 0 =>
               /\ sub[AllTrueCall(i)].s = k.s.trueStmts
               /\ sub[AllTrueCall(i)].block = CallBlock(i, "cif_test_all")
               /\ sub[AllTrueCall(i)].mask = LLVMMaskAllOn
               /\ sub[AllTrueCall(i)].fmask = LLVMMaskAllOn
        \* otherwise any(t): both; otherwise the else statements alone
        /\ ops[second].b1 = CallBlock(i, "cif_test_none_check")
        /\ ops[second + 3].v = t /\ ops[second + 4].v = AnyValue(t)
        /\ ops[second + 4].b1 = CallBlock(i, "cif_test_mixed")
        /\ ops[second + 4].b2 = CallBlock(i, "cif_test_none")
        /\ ops[second + 5].b1 = CallBlock(i, "cif_test_none")
        /\ NoneCall(i) # 0 =>
               /\ sub[NoneCall(i)].s = k.s.falseStmts
               /\ sub[NoneCall(i)].block = CallBlock(i, "cif_test_none")
               /\ sub[NoneCall(i)].mask = LLVMMaskAllOn
               /\ sub[NoneCall(i)].fmask = LLVMMaskAllOn
        /\ MixedTrueCall(i) # 0 =>
               /\ sub[MixedTrueCall(i)].s = k.s.trueStmts
               /\ sub[MixedTrueCall(i)].block = CallBlock(i, "cif_test_mixed")
               /\ sub[MixedTrueCall(i)].mask = <<"and">> \o LLVMMaskAllOn \o t
        /\ MixedFalseCall(i) # 0 =>
               /\ sub[MixedFalseCall(i)].s = k.s.falseStmts
               /\ sub[MixedFalseCall(i)].mask = <<"andnot">> \o LLVMMaskAllOn \o t
        \* every branch out of a sub-path goes to done
        /\ \A j \in 1..Len(ops) : ops[j].op = "BranchInst" => ops[j].b1 = done
        \* at return: done is current, the function mask is as at entry
        /\ ops[Len(ops) - 1].b1 = done
        /\ ops[Len(ops)].v = k.fmask
        /\ FullMaskOf(k) = LLVMMaskAllOn =>
               /\ Len(sub) = Cardinality({n \in {AllTrueCall(i), NoneCall(i),
                                                 MixedTrueCall(i), MixedFalseCall(i)} :
                                              n # 0})
               /\ k.blockOut = done /\ k.fmaskOut = k.fmask

\* C21: emitMaskAllOn sets the internal and the function mask to all on
\* and dispatches on the test t: under all(t) the then statements alone,
\* otherwise under any(t) the then statements with mask all-on & t and the
\* else statements with mask all-on & ~t, otherwise the else statements
\* alone; a sub-path that leaves a current block branches to done; at
\* return done is the current block and the function mask is what it was
\* at entry.
C21_AllOnDispatch ==
    Emitted => \A i \in AllOnCalls : ctx.calls[i].ok => AllOnDispatch(i)

\* for (; a < a; ) if (b < a) break;  compiled with the mask all on: the
\* break ends the block of the all-true sub-path, which gets no branch to
\* done, and the mixed sub-path runs the break under a mask
C21_Witness ==
    /\ Emitted /\ ctx.fault = <<>>
    /\ stmt.kind = "ForStmt" /\ stmt.stmts.kind = "IfStmt"
    /\ \E i \in AllOnCalls :
           /\ ctx.calls[i].s.trueStmts.kind = "BreakStmt"
           /\ ctx.calls[i].nest = 1
           /\ AllOnDispatch(i)
           /\ ~SubPathLive(i, AllTrueCall(i))
           /\ SubPathLive(i, MixedTrueCall(i))
           /\ ctx.calls[i].fmaskOut = LLVMMaskAllOn

\* the way a varying if entered as call k takes
CallPath(k) == VaryingIfPath(k.s, [internalMask |-> k.mask, functionMask |-> k.fmask])

\* the ifs that go through emitMaskMixed
MixedCalls ==
    {i \in 1..Len(ctx.calls) :
         /\ IsVaryingIfCall(ctx.calls[i])
         /\ CallPath(ctx.calls[i]) \in {"mixed", "coherent"}}

\* the number of operations of the if before emitMaskMixed starts
MixedStart(i) ==
    IF CallPath(ctx.calls[i]) = "mixed" THEN 3
    ELSE AllOnStart(i) + Len(AllOnOpNames(i)) + 1

\* the calls emitMaskMixed makes: 0 where the branch is absent
MixedFirst(i) ==
    IF CallPath(ctx.calls[i]) = "mixed" THEN 0
    ELSE Cardinality({n \in {AllTrueCall(i), NoneCall(i), MixedTrueCall(i),
                             MixedFalseCall(i)} : n # 0})
RunTrueCall(i) ==
    IF BranchPresent(ctx.calls[i].s.trueStmts) THEN MixedFirst(i) + 1 ELSE 0
RunFalseCall(i) ==
    IF BranchPresent(ctx.calls[i].s.falseStmts)
    THEN MixedFirst(i) + (IF BranchPresent(ctx.calls[i].s.trueStmts) THEN 2 ELSE 1)
    ELSE 0

MixedTrueOpNames(b) ==
    IF BranchPresent(b)
    THEN <<"CreateBasicBlock", "SetInternalMaskAnd", "Any", "CondBranchInst",
           "SetCurrentBasicBlock">> \o EmitIfOps(b)
         \o <<"BranchInst", "SetCurrentBasicBlock">>
    ELSE <<>>

MixedFalseOpNames(b) ==
    IF BranchPresent(b)
    THEN <<"CreateBasicBlock", "CreateBasicBlock", "SetInternalMaskAndNot", "Any",
           "CondBranchInst", "SetCurrentBasicBlock">> \o EmitIfOps(b)
         \o <<"BranchInst", "SetCurrentBasicBlock">>
    ELSE <<>>

\* the operations of emitMaskMixed
MixedOpNames(i) ==
    <<"StartVaryingIf", "CreateBasicBlock">>
    \o MixedTrueOpNames(ctx.calls[i].s.trueStmts)
    \o MixedFalseOpNames(ctx.calls[i].s.falseStmts)
    \o <<"BranchInst", "SetCurrentBasicBlock", "EndIf">>

MixedOps(i) ==
    SubSeq(CallOps(i), MixedStart(i) + 1, MixedStart(i) + Len(MixedOpNames(i)))

\* the operations anywhere that branch to block b
BranchesTo(b) ==
    {j \in 1..Len(ctx.trace) :
         /\ ctx.trace[j].op \in {"BranchInst", "CondBranchInst", "BranchIfMaskAny",
                                  "BranchIfMaskAll", "BranchIfMaskNone"}
         /\ ctx.trace[j].b1 = b \/ ctx.trace[j].b2 = b}

\* branch b of the if, emitted by the call at position n, runs under mask m
\* in block run, which is entered by nothing but the branch on any(m & the
\* function mask) at position at of ops, and is skipped to block skip
MixedBranch(i, ops, n, at, m, run, skip) ==
    LET k == ctx.calls[i]
        sub == SubCalls(i)
        full == <<"and">> \o m \o k.fmask
    IN  /\ ops[at - 2].v = m
        /\ ops[at - 1].v = full
        /\ ops[at].v = AnyValue(full)
        /\ ops[at].b1 = run /\ ops[at].b2 = skip /\ run # skip
        /\ ops[at + 1].b1 = run
        /\ sub[n].block = run /\ sub[n].mask = m /\ sub[n].fmask = k.fmask
        /\ \A j \in BranchesTo(run) : ctx.trace[j] = ops[at]
        /\ Cardinality(BranchesTo(run)) = 1

MixedEmission(i) ==
    LET k == ctx.calls[i]
        ops == MixedOps(i)
        t == ValueOf(k.s.test)
        lenT == Len(MixedTrueOpNames(k.s.trueStmts))
        done == CallBlock(i, IF CallPath(k) = "mixed" THEN "if_done" ELSE "cif_done")
    IN  /\ Len(CallOps(i)) >= MixedStart(i) + Len(MixedOpNames(i))
        /\ OpNames(ops) = MixedOpNames(i)
        /\ ops[1].v = k.mask
        /\ RunTrueCall(i) # 0 =>
               /\ SubCalls(i)[RunTrueCall(i)].s = k.s.trueStmts
               /\ MixedBranch(i, ops, RunTrueCall(i), 6, <<"and">> \o k.mask \o t,
                              CallBlock(i, "safe_if_run_true"),
                              CallBlock(i, "safe_if_after_true"))
        /\ RunFalseCall(i) # 0 =>
               /\ SubCalls(i)[RunFalseCall(i)].s = k.s.falseStmts
               /\ MixedBranch(i, ops, RunFalseCall(i), lenT + 7,
                              <<"andnot">> \o k.mask \o t,
                              CallBlock(i, "safe_if_run_false"),
                              CallBlock(i, "safe_if_after_false"))
        /\ ops[Len(ops) - 2].b1 = done /\ ops[Len(ops) - 1].b1 = done
        /\ k.blockOut = done
        /\ k.maskOut = k.mask

\* C22: in emitMaskMixed the then statements run with internal mask
\* oldMask & t and the else statements with oldMask & ~t, oldMask being the
\* internal mask at entry to the if; each present branch is entered by
\* nothing but a conditional branch on any(full mask) and skipped
\* otherwise; after the if the current block is done and the internal mask
\* is oldMask again.
C22_MixedMasks ==
    Emitted => \A i \in MixedCalls : ctx.calls[i].ok => MixedEmission(i)

\* an if with both branches under a mask not known at compile time
C22_Witness ==
    /\ Emitted /\ ctx.fault = <<>>
    /\ \E i \in MixedCalls :
           /\ CallPath(ctx.calls[i]) = "mixed"
           /\ RunTrueCall(i) # 0 /\ RunFalseCall(i) # 0
           /\ ctx.calls[i].mask # LLVMMaskAllOn
           /\ SubCalls(i)[RunTrueCall(i)].maskOut # ctx.calls[i].mask
           /\ MixedEmission(i)

\* the positions in ctx.trace of the operations call number i issued itself
CallIdx(i) ==
    LET k == ctx.calls[i]
        own(p) == ctx.trace[p].nest = k.nest + 1
    IN  SelectSeq([n \in 1..(k.to - k.from) |-> k.from + n], own)

\* the loop has a test the emit pass can read, or none
LoopTestUsable(s) ==
    IF s.kind = "DoStmt"
    THEN s.testExpr.kind # "NoExpr" /\ GetType(s.testExpr) # NoType
         /\ ValueOf(s.testExpr) # NoValue
    ELSE s.test.kind # "NoExpr" => GetType(s.test) # NoType /\ ValueOf(s.test) # NoValue

EmitUniformTest(s) ==
    IF s.kind = "DoStmt" THEN IsUniformType(GetType(s.testExpr)) ELSE ForUniformTest(s)

LoopCoherent(s) == s.doCoherentCheck /\ ~EmitUniformTest(s)

\* the value the loop tests
LoopTestValue(s) ==
    IF s.kind = "DoStmt" THEN ValueOf(s.testExpr)
    ELSE IF s.test.kind # "NoExpr" THEN ValueOf(s.test) ELSE <<"truevec">>

\* the calls of EmitCode of a loop that were entered with a current block
\* and could read their test
LoopCalls ==
    {i \in 1..Len(ctx.calls) :
         /\ IsLoop(ctx.calls[i].s) /\ ctx.calls[i].live
         /\ LoopTestUsable(ctx.calls[i].s)}

VaryingLoopCalls == {i \in LoopCalls : ~EmitUniformTest(ctx.calls[i].s)}

\* the calls EmitCode of a loop makes for its body: their positions in
\* SubCalls
BodyCalls(i) ==
    LET s == ctx.calls[i].s
        first == IF s.kind = "ForStmt" /\ s.init.kind # "Null" THEN 2 ELSE 1
    IN  IF ~BranchPresent(LoopBody(s)) THEN {}
        ELSE IF LoopCoherent(s) THEN {first, first + 1}
        ELSE {first}

\* the index in CallOps(i) of the operation that makes block b current
SetCurrentAt(i, b) ==
    CHOOSE j \in 1..Len(CallOps(i)) :
        CallOps(i)[j].op = "SetCurrentBasicBlock" /\ CallOps(i)[j].b1 = b

\* the index in CallOps(i) of the mask update by the test
TestMaskAt(i) ==
    CHOOSE j \in 1..Len(CallOps(i)) : CallOps(i)[j].op = "SetInternalMaskAnd"

IsSuffix(a, b) == Len(a) <= Len(b) /\ SubSeq(b, Len(b) - Len(a) + 1, Len(b)) = a

VaryingLoopEmission(i) ==
    LET k == ctx.calls[i]
        ops == CallOps(i)
        idx == CallIdx(i)
        sub == SubCalls(i)
        isDo == k.kind = "DoStmt"
        body == CallBlock(i, IF isDo THEN "do_loop" ELSE "for_loop")
        exit == CallBlock(i, IF isDo THEN "do_exit" ELSE "for_exit")
        target == CallBlock(i, IF isDo THEN "do_test" ELSE "for_step")
        m == TestMaskAt(i)
        t == SetCurrentAt(i, target)
        evals == {j \in 1..Len(ops) : ops[j].op = "GetValue"}
    IN  \* the test: the mask is narrowed by it, and the branch is on the
        \* narrowed mask
        /\ Cardinality({j \in 1..Len(ops) : ops[j].op = "SetInternalMaskAnd"}) = 1
        /\ \A j \in evals :
               ops[j].v = <<TestOf(k.s).id>> /\ m = j + 1 /\ idx[m] = idx[j] + 1
        /\ TestOf(k.s).kind # "NoExpr" => Cardinality(evals) = 1
        /\ Head(ops[m].v) = "and" /\ IsSuffix(LoopTestValue(k.s), Tail(ops[m].v))
        /\ ~isDo /\ k.s.init.kind = "Null" =>
               ops[m].v = <<"and">> \o k.mask \o LoopTestValue(k.s)
        /\ ops[m + 1].op = "BranchIfMaskAny" /\ idx[m + 1] = idx[m] + 1
        /\ ops[m + 1].v = ops[m].v
        /\ ops[m + 1].b1 = body /\ ops[m + 1].b2 = exit
        \* the continue target starts with RestoreContinuedLanes
        /\ ops[t + 1].op = "RestoreContinuedLanes" /\ idx[t + 1] = idx[t] + 1
        /\ Cardinality({j \in 1..Len(ops) : ops[j].op = "SetCurrentBasicBlock"
                                            /\ ops[j].b1 = target}) = 1
        /\ isDo => t < m
        /\ ~isDo /\ k.s.step.kind # "Null" => sub[Len(sub)].from >= idx[t + 1]
        \* do: body, then test; for: test, then body
        /\ \A n \in BodyCalls(i) :
               /\ sub[n].s = LoopBody(k.s)
               /\ IF isDo THEN sub[n].to < idx[m] ELSE sub[n].from >= idx[m + 1]
        /\ IF isDo THEN SetCurrentAt(i, body) < t /\ ops[SetCurrentAt(i, body) - 1].b1 = body
                         /\ ops[SetCurrentAt(i, body) - 1].op = "BranchInst"
           ELSE m + 1 < SetCurrentAt(i, body)

\* C23: in a varying do or for loop the evaluation of the test is followed
\* at once by internal mask := internal mask & test and by a branch on
\* any(mask) to the body, else to the exit; the continue target (do: the
\* test block, for: the step block) starts with RestoreContinuedLanes,
\* ahead of the test and of the step; a do enters its body before it
\* tests, a for tests before it enters its body.
C23_VaryingLoopTest ==
    Emitted => \A i \in VaryingLoopCalls : ctx.calls[i].ok => VaryingLoopEmission(i)

\* a varying do and a varying for, each with a body
C23_Witness ==
    /\ Emitted /\ ctx.fault = <<>>
    /\ \E i \in VaryingLoopCalls :
           /\ BodyCalls(i) # {} /\ VaryingLoopEmission(i)
           /\ ctx.calls[i].kind = "DoStmt"
           /\ \E j \in VaryingLoopCalls :
                  /\ ctx.calls[j].kind = "ForStmt"
                  /\ ctx.calls[j].s.test.kind # "NoExpr"
                  /\ VaryingLoopEmission(j)

\* a loop that takes the coherent route: two copies of the body behind a
\* branch on all(mask)
LoopBodyCoherent(i) ==
    LET k == ctx.calls[i]
        ops == CallOps(i)
        idx == CallIdx(i)
        sub == SubCalls(i)
        isDo == k.kind = "DoStmt"
        allOn == CallBlock(i, IF isDo THEN "do_all_on" ELSE "for_all_on")
        mixed == CallBlock(i, IF isDo THEN "do_mixed" ELSE "for_mixed")
        target == CallBlock(i, IF isDo THEN "do_test" ELSE "for_step")
        a == SetCurrentAt(i, allOn)
        first == IF ~isDo /\ k.s.init.kind # "Null" THEN 2 ELSE 1
    IN  /\ OpNames(SubSeq(ops, a - 3, a + 6)) =
               <<"CreateBasicBlock", "CreateBasicBlock", "BranchIfMaskAll",
                 "SetCurrentBasicBlock", "SetInternalMask", "SetFunctionMask",
                 "SetFunctionMask", "BranchInst", "SetCurrentBasicBlock", "BranchInst">>
        /\ ops[a - 1].b1 = allOn /\ ops[a - 1].b2 = mixed /\ allOn # mixed
        /\ BranchesTo(allOn) = {idx[a - 1]} /\ BranchesTo(mixed) = {idx[a - 1]}
        \* the all-on copy
        /\ ops[a + 1].v = LLVMMaskAllOn /\ ops[a + 2].v = LLVMMaskAllOn
        /\ ops[a + 3].v = k.fmask
        /\ ops[a + 4].b1 = target
        \* the mixed copy: nothing sets a mask between the branch and the body
        /\ ops[a + 5].b1 = mixed
        /\ ops[a + 6].b1 = target
        /\ IF BranchPresent(LoopBody(k.s))
           THEN /\ BodyCalls(i) = {first, first + 1}
                /\ sub[first].s = LoopBody(k.s) /\ sub[first + 1].s = LoopBody(k.s)
                /\ sub[first].from = idx[a + 2] /\ sub[first].to + 1 = idx[a + 3]
                /\ sub[first].block = allOn
                /\ sub[first].mask = LLVMMaskAllOn /\ sub[first].fmask = LLVMMaskAllOn
                /\ sub[first + 1].from = idx[a + 5] /\ sub[first + 1].to + 1 = idx[a + 6]
                /\ sub[first + 1].block = mixed
                /\ sub[first + 1].fmask = k.fmask
           ELSE idx[a + 3] = idx[a + 2] + 1 /\ idx[a + 6] = idx[a + 5] + 1
        /\ k.fmaskOut = k.fmask

\* a loop that emits its body once
LoopBodyOnce(i) ==
    LET k == ctx.calls[i]
        ops == CallOps(i)
        sub == SubCalls(i)
        isDo == k.kind = "DoStmt"
        others == IF isDo THEN 0
                  ELSE (IF k.s.init.kind # "Null" THEN 1 ELSE 0)
                       + (IF k.s.step.kind # "Null" THEN 1 ELSE 0)
    IN  /\ \A j \in 1..Len(ops) : ops[j].op # "BranchIfMaskAll"
        /\ Len(sub) = others + Cardinality(BodyCalls(i))
        /\ Cardinality(BodyCalls(i)) = IF BranchPresent(LoopBody(k.s)) THEN 1 ELSE 0
        /\ \A n \in BodyCalls(i) : sub[n].s = LoopBody(k.s)

LoopBodyEmission(i) ==
    IF LoopCoherent(ctx.calls[i].s) THEN LoopBodyCoherent(i) ELSE LoopBodyOnce(i)

\* C24: a do or for loop with the coherent check and a varying test enters
\* its body through a branch on all(mask) to an all-on copy (internal and
\* function mask all on for the body, the function mask restored after it)
\* or to a mixed copy under the unchanged mask, and both copies branch to
\* the continue target; without the coherent check, or with a uniform
\* test, the body is emitted exactly once.
C24_CoherentLoopBody ==
    Emitted => \A i \in LoopCalls : ctx.calls[i].ok /\ LoopBodyEmission(i)

\* what holds of the loops whose emission runs to its end
LoopBodyWhereAlive ==
    Emitted => \A i \in LoopCalls : ctx.calls[i].ok => LoopBodyEmission(i)

\* a site whose initializer is not a brace list and does not convert to the
\* type of the site
IsUnconvertedSite(st) ==
    /\ st.init.kind \notin {"NoExpr", "ExprList"}
    /\ ~CanConvert(GetType(st.init), st.type)

\* C25: when an initializer that is not a brace list cannot be converted to
\* T, lInitSymbol stores nothing and stops without a fault: for a
\* collection T with the error "Can't assign type X to Y", for a reference
\* T of another type with the reference-mismatch error, and the absent
\* converted initializer is never dereferenced.
C25_FailedConversionClean ==
    DeclEmitted =>
        \A st \in DeclSites :
            IsUnconvertedSite(st) =>
                /\ StoresAt(st.lv) = {}
                /\ ctx.fault = <<>>
                /\ IsCollectionType(st.type) =>
                       EmitErrors("can't assign type to collection") # {}
                /\ IsReferenceType(st.type) =>
                       EmitErrors("initializer for reference must have same reference type")
                           # {}

\* the statement emitted is one with a test whose GetType() or GetValue()
\* returns NULL
TestedWithNull ==
    /\ phase = "emitted" /\ stmt # NULL /\ HasTest(stmt)
    /\ TestOf(stmt).kind # "NoExpr"
    /\ GetType(TestOf(stmt)) = NoType \/ ValueOf(TestOf(stmt)) = NoValue

\* the operations that were given a NULL value as an operand
NullOperandOps ==
    {j \in 1..Len(ctx.trace) :
         \E n \in 1..Len(ctx.trace[j].v) : ctx.trace[j].v[n] = "NULL"}

\* C26: EmitCode of a statement whose test has no type or no value bails
\* out without a fault: no NULL type is dereferenced (the test of a for
\* loop included) and no branch or call is emitted with a missing operand
\* (the condition of the assert helper included).
C26_NullBailout ==
    TestedWithNull => ctx.fault = <<>> /\ NullOperandOps = {}

\* the fields of a Symbol that the passes assign
SymbolFields == {"storagePtr", "parentFunction", "varyingCFDepth", "constValue"}

\* the assignments to field of the symbol name, in ctx.syms[name].writes
FieldWrites(name, field) ==
    {j \in 1..Len(ctx.syms[name].writes) : ctx.syms[name].writes[j].field = field}

\* C27: each mutable field of a symbol (storage location, parent function,
\* varying-CF depth, captured constant value) is written by the emit pass
\* at most once per symbol, wherever the declaration is nested, the bodies
\* of coherent loops and of varying ifs under a mask that is all on
\* included.
C27_SymbolFieldsWrittenOnce ==
    Emitted =>
        \A name \in DOMAIN ctx.syms : \A field \in SymbolFields :
            Cardinality(FieldWrites(name, field)) <= 1

\* the ifs that emitVaryingIf lowers by the mask-mixed fallback
FallbackCalls ==
    {i \in 1..Len(ctx.calls) :
         IsVaryingIfCall(ctx.calls[i]) /\ CallPath(ctx.calls[i]) = "mixed"}

\* C28: whenever emitVaryingIf takes the mask-mixed fallback, the
\* doAnyCheck the constructor cached is true; so too for an if whose test
\* was uniform when it was constructed and which type-check cast to varying
\* bool under disableUniformControlFlow.
C28_FallbackHasAnyCheck ==
    Emitted => \A i \in FallbackCalls : ctx.calls[i].s.doAnyCheck

\* the assert(ctx->GetCurrentBasicBlock()) after the branch bodies of a
\* varying if and after the copies of a coherent loop body, as the faults
\* name them
CurrentBlockAsserts ==
    {"emitVaryingIf predicated", "emitMaskMixed true", "emitMaskMixed false",
     "emitMaskAllOn mixed", "do body, mask all on", "do body, mask mixed",
     "for body, mask all on"}

FailedAsserts == {ctx.fault[j] : j \in 1..Len(ctx.fault)}

\* C29: every assert(ctx->GetCurrentBasicBlock()) holds: after the branch
\* bodies of a varying if (predicated, mask-mixed, the mixed sub-path of
\* mask-all-on) and after either copy of the body of a coherent varying
\* loop, the all-on copy included, whatever break, continue or return the
\* body holds and wherever.
C29_CurrentBlockAssertsHold ==
    Emitted => FailedAsserts \cap CurrentBlockAsserts = {}

---------------------------------------------------------------------------
(* The safety predicate over statements that hold index expressions: the   *)
(* statements of SpecAnalyse, and stores through v[i] with the base and    *)
(* the index drawn from symbols, constants and function calls.             *)

\* g(), a call that returns a vector of 2
eCallVec ==
    MkExpr("g()", "FunctionCallExpr", VectorType(VaryingInt32, 2), TRUE, "ok", 4, <<>>)

SafeBases == {SeqSymbol(ArrayType(VaryingInt32, 2)), eCallVec}

SafeIndices ==
    {ConstExpr("0", UniformInt32, <<0>>), ConstExpr("2", UniformInt32, <<2>>), symA, eCall}

\* v[i] = 1;
BuildIndexed(base, index) ==
    /\ phase = "build"
    /\ stmt = NULL
    /\ stmt' = IndexStore(base, index)
    /\ UNCHANGED <<g, orig, phase, diag, ctx, scan>>

NextSafe ==
    \/ \E b \in SafeBases, i \in SafeIndices : BuildIndexed(b, i)
    \/ \E l \in AnalyseLeaves : BuildLeaf(l)
    \/ \E x \in AnalyseIfShapes : BuildIf(x[1], x[2], x[3])
    \/ \E e \in {eU, eV} : BuildDo(e)
    \/ \E x \in AnalyseForShapes : BuildFor(x[1], x[2], x[3])
    \/ \E x \in AnalyseListShapes : BuildList(x[1], x[2])
    \/ RunSafe
    \/ RunCost

SpecSafe == InitAnalyse /\ [][NextSafe]_vars

\* a function call occurs in e, at any depth
RECURSIVE ExprHasCall(_)
ExprHasCall(e) ==
    \/ e.kind = "FunctionCallExpr"
    \/ \E i \in 1..Len(e.exprs) : ExprHasCall(e.exprs[i])

\* the expressions statement s holds itself
ExprsIn(s) ==
    CASE s.kind = "ExprStmt" -> {s.expr}
      [] s.kind = "DeclStmt" -> {s.vars[i].init : i \in 1..Len(s.vars)}
      [] s.kind = "IfStmt" -> {s.test}
      [] s.kind = "DoStmt" -> {s.testExpr}
      [] s.kind = "ForStmt" -> {s.test}
      [] s.kind = "ReturnStmt" -> {s.val}
      [] s.kind = "PrintStmt" -> {s.values}
      [] s.kind = "AssertStmt" -> {s.expr}
      [] OTHER -> {}

StmtHasCall(s) == \E t \in StmtsOf(s) : \E e \in ExprsIn(t) : ExprHasCall(e)

\* C30: if lSafeToRunWithAllLanesOff returns true for a statement, no
\* function call occurs anywhere inside it, at any depth, the base and the
\* index of an index expression included.
C30_SafeHasNoCall ==
    phase = "safety" /\ stmt # NULL /\ scan = TRUE => ~StmtHasCall(stmt)

=============================================================================
